---- MODULE Spec2Model ----
(***************************************************************************)
(* Model of the hierarchical agentic system: the LangGraph workflow of     *)
(* src/graph/lang_graph.py, the API executor of src/tools/api_executor.py  *)
(* and the error handler of src/utils/error_handler.py.                    *)
(*                                                                         *)
(* Python strings are TLA+ strings (sequences of characters): SubSeq, Len  *)
(* and \o act on them.  A Python dict is a function with a domain of       *)
(* strings (a record); {} is <<>>.  A Python value that is not a dict is a *)
(* record tagged by its type: [str |-> "7"], [int |-> 5], [list |-> 0],    *)
(* [null |-> 0].                                                           *)
(***************************************************************************)
EXTENDS Integers, Sequences, FiniteSets, TLC

\* ------------------------------------------------------------------------
\* Python string primitives
\* ------------------------------------------------------------------------

UpperLetters == "ABCDEFGHIJKLMNOPQRSTUVWXYZ"

LowerLetters == "abcdefghijklmnopqrstuvwxyz"

DigitChars == "0123456789"

\* the index of character c in alphabet s, 0 when absent
IndexIn(c, s) ==
    IF \E i \in 1..Len(s) : SubSeq(s, i, i) = c
    THEN CHOOSE i \in 1..Len(s) : SubSeq(s, i, i) = c
    ELSE 0

LowerChar(c) ==
    LET i == IndexIn(c, UpperLetters)
    IN  IF i = 0 THEN c ELSE SubSeq(LowerLetters, i, i)

UpperChar(c) ==
    LET i == IndexIn(c, LowerLetters)
    IN  IF i = 0 THEN c ELSE SubSeq(UpperLetters, i, i)

RECURSIVE Lower(_)
\* str.lower()
Lower(s) ==
    IF Len(s) = 0 THEN s ELSE LowerChar(Head(s)) \o Lower(Tail(s))

RECURSIVE Upper(_)
\* str.upper()
Upper(s) ==
    IF Len(s) = 0 THEN s ELSE UpperChar(Head(s)) \o Upper(Tail(s))

RECURSIVE Strip(_)
\* str.strip() for the whitespace the model uses (blank)
Strip(s) ==
    IF Len(s) = 0 THEN s
    ELSE IF Head(s) = " " THEN Strip(Tail(s))
    ELSE IF SubSeq(s, Len(s), Len(s)) = " " THEN Strip(SubSeq(s, 1, Len(s) - 1))
    ELSE s

\* Python's `sub in s`
Contains(s, sub) ==
    \E i \in 1..(Len(s) - Len(sub) + 1) : SubSeq(s, i, i + Len(sub) - 1) = sub

RECURSIVE Replace(_, _, _)
\* str.replace(old, new) for a non-empty old: every non-overlapping
\* occurrence, scanning from the left
Replace(s, old, new) ==
    IF Len(s) < Len(old) THEN s
    ELSE IF SubSeq(s, 1, Len(old)) = old
         THEN new \o Replace(SubSeq(s, Len(old) + 1, Len(s)), old, new)
         ELSE Head(s) \o Replace(Tail(s), old, new)

RECURSIVE IntToStr(_)
\* str(n) for an int n >= 0
IntToStr(n) ==
    IF n < 10 THEN SubSeq(DigitChars, n + 1, n + 1)
    ELSE IntToStr(n \div 10) \o SubSeq(DigitChars, (n % 10) + 1, (n % 10) + 1)

\* ------------------------------------------------------------------------
\* Python values and dicts
\* ------------------------------------------------------------------------

EmptyDict == <<>>

TypeTags == {"str", "int", "list", "null"}

IsDict(v) == DOMAIN v \cap TypeTags = {}

\* dict.get(k, default)
Get(d, k, default) == IF k \in DOMAIN d THEN d[k] ELSE default

\* str(value)
PyStr(v) ==
    IF "str" \in DOMAIN v THEN v.str
    ELSE IF "int" \in DOMAIN v THEN IntToStr(v.int)
    ELSE IF "list" \in DOMAIN v THEN "[]"
    ELSE "None"

\* ------------------------------------------------------------------------
\* Error handler (src/utils/error_handler.py)
\* ------------------------------------------------------------------------

AnyIn(words, s) == \E w \in words : Contains(s, w)

CategoryOf_swapped(error_lower) ==
    IF Contains(error_lower, "timeout") \/ Contains(error_lower, "408")
    THEN "TIMEOUT"
    ELSE IF Contains(error_lower, "not found") \/ Contains(error_lower, "404")
    THEN "NOT_FOUND"
    ELSE IF AnyIn({"invalid", "bad request", "400", "validation"}, error_lower)
    THEN "INVALID_INPUT"
    ELSE IF AnyIn({"authentication", "unauthorized", "401", "api key", "token"}, error_lower)
    THEN "AUTH"
    ELSE IF Contains(error_lower, "rate limit") \/ Contains(error_lower, "429")
    THEN "RATE_LIMIT"
    ELSE IF Contains(error_lower, "forbidden") \/ Contains(error_lower, "403")
    THEN "FORBIDDEN"
    ELSE IF AnyIn({"500", "internal server", "503", "service unavailable"}, error_lower)
    THEN "SERVER_ERROR"
    ELSE IF Contains(error_lower, "connection") \/ Contains(error_lower, "network")
    THEN "CONNECTION"
    ELSE "UNKNOWN"

\* the if/elif chain of categorize_error over the lower-cased text
CategoryOf(error_lower) ==
    IF Contains(error_lower, "timeout") \/ Contains(error_lower, "408")
    THEN "TIMEOUT"
    ELSE IF AnyIn({"authentication", "unauthorized", "401", "api key", "token"}, error_lower)
    THEN "AUTH"
    ELSE IF Contains(error_lower, "not found") \/ Contains(error_lower, "404")
    THEN "NOT_FOUND"
    ELSE IF AnyIn({"invalid", "bad request", "400", "validation"}, error_lower)
    THEN "INVALID_INPUT"
    ELSE IF Contains(error_lower, "rate limit") \/ Contains(error_lower, "429")
    THEN "RATE_LIMIT"
    ELSE IF Contains(error_lower, "forbidden") \/ Contains(error_lower, "403")
    THEN "FORBIDDEN"
    ELSE IF AnyIn({"500", "internal server", "503", "service unavailable"}, error_lower)
    THEN "SERVER_ERROR"
    ELSE IF Contains(error_lower, "connection") \/ Contains(error_lower, "network")
    THEN "CONNECTION"
    ELSE "UNKNOWN"

categorize_error_lowercase_result(error) == Lower(CategoryOf(Lower(error)))

\* variant: leaves uncategorized errors without a category
categorize_error_blank_unknown(error) ==
    IF CategoryOf(Lower(error)) = "UNKNOWN" THEN "" ELSE CategoryOf(Lower(error))

categorize_error(error) == CategoryOf(Lower(error))

\* ------------------------------------------------------------------------
\* API executor (src/tools/api_executor.py)
\* ------------------------------------------------------------------------

\* tool_config.TOOL_TIMEOUT_SECONDS
TOOL_TIMEOUT_SECONDS == 30

\* A parameter map is an insertion-ordered dict: [items |-> <<[key, value], ...>>]
IsParamDict(p) == "items" \in DOMAIN p

ParamKeys(p) == {p.items[i].key : i \in 1..Len(p.items)}

\* parameters[key], for a key of the map
ParamValue(p, k) ==
    p.items[CHOOSE i \in 1..Len(p.items) : p.items[i].key = k].value

\* the three placeholder syntaxes of one key, in the order they are tried
Patterns(key) == << "{{" \o key \o "}}", "{" \o key \o "}", ":" \o key >>

RECURSIVE ReplacePatterns(_, _, _, _)
\* the inner loop of _build_url: for pattern in patterns: if pattern in url: replace
ReplacePatterns(url, patterns, value, i) ==
    IF i > Len(patterns) THEN url
    ELSE ReplacePatterns(
            IF Contains(url, patterns[i]) THEN Replace(url, patterns[i], PyStr(value)) ELSE url,
            patterns, value, i + 1)

RECURSIVE BuildUrlFrom(_, _, _)
\* the outer loop of _build_url over parameters.items(), from item i on
BuildUrlFrom(url, items, i) ==
    IF i > Len(items) THEN url
    ELSE BuildUrlFrom(ReplacePatterns(url, Patterns(items[i].key), items[i].value, 1),
                      items, i + 1)

_build_url(url_template, parameters) ==
    BuildUrlFrom(url_template, parameters.items, 1)

\* dict[key] = value on an insertion-ordered dict, given as its items
DictSet(items, key, value) ==
    IF \E i \in DOMAIN items : items[i].key = key
    THEN [i \in DOMAIN items |->
            IF items[i].key = key THEN [key |-> key, value |-> value] ELSE items[i]]
    ELSE Append(items, [key |-> key, value |-> value])

\* the headers every request starts from
DefaultHeaders ==
    << [key |-> "Content-Type", value |-> "application/json"],
       [key |-> "Accept", value |-> "application/json"],
       [key |-> "User-Agent", value |-> "LangGraph-Agentic-System/1.0"] >>

RECURSIVE SubstituteHeaderValue(_, _, _)
\* the loop over parameters.items() of _build_headers, from item i on: the
\* single-brace form is replaced first, the double-brace form second
SubstituteHeaderValue(value, items, i) ==
    IF i > Len(items) THEN value
    ELSE SubstituteHeaderValue(
            Replace(Replace(value, "{" \o items[i].key \o "}", PyStr(items[i].value)),
                    "{{" \o items[i].key \o "}}", PyStr(items[i].value)),
            items, i + 1)

RECURSIVE OverlayHeaders(_, _, _, _)
\* the loop over the tool-declared headers of _build_headers
OverlayHeaders(headers, header_list, parameters, i) ==
    IF i > Len(header_list) THEN headers
    ELSE LET key   == Get(header_list[i], "key", "")
             value == Get(header_list[i], "value", "")
         IN  OverlayHeaders(
                IF key # "" /\ value # ""
                THEN DictSet(headers, key, SubstituteHeaderValue(value, parameters.items, 1))
                ELSE headers,
                header_list, parameters, i + 1)

build_headers_token_first(header_list, parameters) ==
    LET headers == OverlayHeaders(DefaultHeaders, header_list, parameters, 1)
    IN  [items |->
          IF "auth_token" \in ParamKeys(parameters)
          THEN DictSet(headers, "Authorization",
                       "Bearer " \o PyStr(ParamValue(parameters, "auth_token")))
          ELSE IF "api_key" \in ParamKeys(parameters)
          THEN DictSet(headers, "Authorization",
                       "Bearer " \o PyStr(ParamValue(parameters, "api_key")))
          ELSE headers]

_build_headers(header_list, parameters) ==
    LET headers == OverlayHeaders(DefaultHeaders, header_list, parameters, 1)
    IN  [items |->
          IF "api_key" \in ParamKeys(parameters)
          THEN DictSet(headers, "Authorization",
                       "Bearer " \o PyStr(ParamValue(parameters, "api_key")))
          ELSE IF "auth_token" \in ParamKeys(parameters)
          THEN DictSet(headers, "Authorization",
                       "Bearer " \o PyStr(ParamValue(parameters, "auth_token")))
          ELSE headers]

\* p.get("type") in types, for the declarations of a tool definition
DeclaredOfTypes(param_defs, types) ==
    SelectSeq(param_defs, LAMBDA p : Get(p, "type", "") \in types)

\* [p["name"] for p in param_defs if p.get("type") == t] raises KeyError when
\* such a declaration has no name
NameMissing(param_defs, types) ==
    \E i \in DOMAIN param_defs :
       Get(param_defs[i], "type", "") \in types /\ "name" \notin DOMAIN param_defs[i]

RECURSIVE DeclaredBodyFrom(_, _, _, _)
\* _build_body, declared branch: the loop over body_params
DeclaredBodyFrom(body, body_params, parameters, i) ==
    IF i > Len(body_params) THEN body
    ELSE DeclaredBodyFrom(
            IF "name" \in DOMAIN body_params[i]
               /\ body_params[i].name \in ParamKeys(parameters)
            THEN DictSet(body, body_params[i].name,
                         ParamValue(parameters, body_params[i].name))
            ELSE body,
            body_params, parameters, i + 1)

RECURSIVE FallbackBodyFrom(_, _, _, _)
\* _build_body, fallback branch: the loop over parameters.items()
FallbackBodyFrom(body, excluded, items, i) ==
    IF i > Len(items) THEN body
    ELSE FallbackBodyFrom(
            IF items[i].key \notin excluded
            THEN DictSet(body, items[i].key, items[i].value) ELSE body,
            excluded, items, i + 1)

build_body_fallback_only(parameters, tool_definition) ==
    LET param_defs == Get(tool_definition, "parameters", << >>)
    IN  IF NameMissing(param_defs, {"path", "query"}) THEN [raised |-> "'name'"]
        ELSE LET excluded == { p.name : p \in
                                 { param_defs[i] : i \in
                                     { j \in DOMAIN param_defs :
                                         Get(param_defs[j], "type", "") \in {"path", "query"} } } }
             IN  [items |-> FallbackBodyFrom(<< >>, excluded, parameters.items, 1)]

build_body_everything(parameters, tool_definition) ==
    LET param_defs  == Get(tool_definition, "parameters", << >>)
        body_params == DeclaredOfTypes(param_defs, {"body", "formdata"})
    IN  IF Len(body_params) > 0
        THEN [items |-> DeclaredBodyFrom(<< >>, body_params, parameters, 1)]
        ELSE IF NameMissing(param_defs, {"path", "query"}) THEN [raised |-> "'name'"]
        ELSE [items |-> FallbackBodyFrom(<< >>, {}, parameters.items, 1)]

\* variant: the fallback leaves out what the URL template consumed
build_body_without_url_parameters(parameters, tool_definition) ==
    LET param_defs  == Get(tool_definition, "parameters", << >>)
        body_params == DeclaredOfTypes(param_defs, {"body", "formdata"})
    IN  IF Len(body_params) > 0
        THEN [items |-> DeclaredBodyFrom(<< >>, body_params, parameters, 1)]
        ELSE IF NameMissing(param_defs, {"path", "query"}) THEN [raised |-> "'name'"]
        ELSE LET excluded == { p.name : p \in
                                 { param_defs[i] : i \in
                                     { j \in DOMAIN param_defs :
                                         Get(param_defs[j], "type", "") \in {"path", "query"} } } }
                 consumed == { k \in ParamKeys(parameters) :
                                 Contains(Get(tool_definition, "url", ""), "{" \o k \o "}") }
             IN  [items |-> FallbackBodyFrom(<< >>, excluded \cup consumed,
                                             parameters.items, 1)]

\* _build_body: [items |-> body], or [raised |-> message] for the KeyError of a
\* path or query declaration without a name
_build_body(parameters, tool_definition) ==
    LET param_defs  == Get(tool_definition, "parameters", << >>)
        body_params == DeclaredOfTypes(param_defs, {"body", "formdata"})
    IN  IF Len(body_params) > 0
        THEN [items |-> DeclaredBodyFrom(<< >>, body_params, parameters, 1)]
        ELSE IF NameMissing(param_defs, {"path", "query"}) THEN [raised |-> "'name'"]
        ELSE LET excluded == { p.name : p \in
                                 { param_defs[i] : i \in
                                     { j \in DOMAIN param_defs :
                                         Get(param_defs[j], "type", "") \in {"path", "query"} } } }
             IN  [items |-> FallbackBodyFrom(<< >>, excluded, parameters.items, 1)]

RECURSIVE QueryParamsFrom(_, _, _, _)
\* _extract_query_params: the loop over query_param_names
QueryParamsFrom(query_params, names, parameters, i) ==
    IF i > Len(names) THEN query_params
    ELSE QueryParamsFrom(
            IF names[i].name \in ParamKeys(parameters)
            THEN DictSet(query_params, names[i].name,
                         PyStr(ParamValue(parameters, names[i].name)))
            ELSE query_params,
            names, parameters, i + 1)

extract_query_params_all(parameters, tool_definition) ==
    LET param_defs == Get(tool_definition, "parameters", << >>)
    IN  IF NameMissing(param_defs, {"query"}) THEN [raised |-> "'name'"]
        ELSE [items |-> [i \in DOMAIN parameters.items |->
                            [key |-> parameters.items[i].key,
                             value |-> PyStr(parameters.items[i].value)]]]

\* _extract_query_params: [items |-> query_params], or [raised |-> message] for
\* the KeyError of a query declaration without a name
_extract_query_params(parameters, tool_definition) ==
    LET param_defs == Get(tool_definition, "parameters", << >>)
    IN  IF NameMissing(param_defs, {"query"}) THEN [raised |-> "'name'"]
        ELSE [items |-> QueryParamsFrom(<< >>, DeclaredOfTypes(param_defs, {"query"}),
                                        parameters, 1)]

\* variant: every method without a body sends the declared query parameters
request_kwargs_query_unless_body(parameters, tool_definition) ==
    LET method  == Upper(tool_definition.method)
        base    == [method |-> method,
                    url |-> _build_url(tool_definition.url, parameters),
                    headers |-> _build_headers(Get(tool_definition, "headers", << >>),
                                               parameters),
                    timeout |-> TOOL_TIMEOUT_SECONDS]
    IN  IF method \in {"POST", "PUT", "PATCH"}
        THEN LET body == _build_body(parameters, tool_definition)
             IN  IF "raised" \in DOMAIN body THEN body
                 ELSE IF Get(tool_definition, "body_type", "") = "formdata"
                 THEN base @@ [data |-> body]
                 ELSE base @@ [json |-> body]
        ELSE LET query_params == _extract_query_params(parameters, tool_definition)
             IN  IF "raised" \in DOMAIN query_params THEN base
                 ELSE IF Len(query_params.items) > 0
                 THEN base @@ [params |-> query_params]
                 ELSE base

\* The request execute hands to session.request (lines 37-62), for a tool
\* definition with method and url and a parameter map: the keyword arguments
\* as a record, or [raised |-> message] when building them raises
request_kwargs(parameters, tool_definition) ==
    LET method  == Upper(tool_definition.method)
        base    == [method |-> method,
                    url |-> _build_url(tool_definition.url, parameters),
                    headers |-> _build_headers(Get(tool_definition, "headers", << >>),
                                               parameters),
                    timeout |-> TOOL_TIMEOUT_SECONDS]
    IN  IF method \in {"POST", "PUT", "PATCH"}
        THEN LET body == _build_body(parameters, tool_definition)
             IN  IF "raised" \in DOMAIN body THEN body
                 ELSE IF Get(tool_definition, "body_type", "") = "formdata"
                 THEN base @@ [data |-> body]
                 ELSE base @@ [json |-> body]
        ELSE IF method = "GET"
        THEN LET query_params == _extract_query_params(parameters, tool_definition)
             IN  IF "raised" \in DOMAIN query_params THEN query_params
                 ELSE IF Len(query_params.items) > 0
                 THEN base @@ [params |-> query_params]
                 ELSE base
        ELSE base

\* An HTTP outcome is what session.request does: it returns a response
\* [kind |-> "response", status_code, body] whose body is [json |-> value] when it
\* parses as JSON and [text |-> t] when it does not, or it raises
\* [kind |-> "timeout"], [kind |-> "connection", msg] or [kind |-> "exception", msg].
IsJson(body) == "json" \in DOMAIN body

\* variant: the status texts of 500 and 503 name no server
StatusMessages_plain_5xx ==
    [ s \in {400, 401, 403, 404, 429, 500, 503} |->
        CASE s = 400 -> "Bad Request - Invalid parameters"
          [] s = 401 -> "Unauthorized - Authentication required"
          [] s = 403 -> "Forbidden - Access denied"
          [] s = 404 -> "Not Found - Resource doesn't exist"
          [] s = 429 -> "Rate Limit Exceeded - Too many requests"
          [] s = 500 -> "Something went wrong"
          [] s = 503 -> "Temporarily unavailable" ]

StatusMessages ==
    [ s \in {400, 401, 403, 404, 429, 500, 503} |->
        CASE s = 400 -> "Bad Request - Invalid parameters"
          [] s = 401 -> "Unauthorized - Authentication required"
          [] s = 403 -> "Forbidden - Access denied"
          [] s = 404 -> "Not Found - Resource doesn't exist"
          [] s = 429 -> "Rate Limit Exceeded - Too many requests"
          [] s = 500 -> "Internal Server Error"
          [] s = 503 -> "Service Unavailable" ]

_get_error_message(response) ==
    LET default_msg ==
            IF response.status_code \in DOMAIN StatusMessages
            THEN StatusMessages[response.status_code]
            ELSE "Request failed with status " \o IntToStr(response.status_code)
        body == response.body
    IN  IF IsJson(body) /\ IsDict(body.json)
        THEN IF "error" \in DOMAIN body.json
             THEN default_msg \o ": " \o body.json["error"]
             ELSE IF "message" \in DOMAIN body.json
             THEN default_msg \o ": " \o body.json["message"]
             ELSE default_msg
        ELSE default_msg

parse_response_always_ok(response) ==
    [success |-> TRUE, status_code |-> response.status_code]
    @@ [data |-> IF IsJson(response.body) THEN response.body.json
                 ELSE [raw_response |-> response.body.text]]

_parse_response(response) ==
    LET success == response.status_code < 400
        result  == [success |-> success, status_code |-> response.status_code]
        data    == IF IsJson(response.body) THEN response.body.json
                   ELSE [raw_response |-> response.body.text]
    IN  IF success
        THEN result @@ [data |-> data]
        ELSE result @@ [data |-> data] @@ [error |-> _get_error_message(response)]

\* the exception, if any, that building the request raises before the HTTP call:
\* "" when none
BuildException(parameters, tool_definition) ==
    IF "method" \notin DOMAIN tool_definition THEN "'method'"
    ELSE IF "url" \notin DOMAIN tool_definition THEN "'url'"
    ELSE IF ~IsParamDict(parameters)
    THEN "'" \o (IF "list" \in DOMAIN parameters THEN "list"
                 ELSE IF "str" \in DOMAIN parameters THEN "str"
                 ELSE IF "int" \in DOMAIN parameters THEN "int"
                 ELSE "NoneType") \o "' object has no attribute 'items'"
    ELSE IF /\ Upper(tool_definition.method) \in {"POST", "PUT", "PATCH"}
            /\ Len(DeclaredOfTypes(Get(tool_definition, "parameters", << >>),
                                   {"body", "formdata"})) = 0
            /\ NameMissing(Get(tool_definition, "parameters", << >>), {"path", "query"})
    THEN "'name'"    \* _build_body, fallback branch
    ELSE IF /\ Upper(tool_definition.method) = "GET"
            /\ NameMissing(Get(tool_definition, "parameters", << >>), {"query"})
    THEN "'name'"    \* _extract_query_params
    ELSE ""

\* the HTTP call is not made when building the request raised
NotCalled == [kind |-> "not_called"]

\* The try block of execute: [returned |-> result], or [raised |-> class, msg]
\* for the exception that leaves it
try_block(tool_id, parameters, tool_definition, http) ==
    LET exc == BuildException(parameters, tool_definition)
    IN  IF exc # "" THEN [raised |-> "Exception", msg |-> exc]
        ELSE IF http.kind = "response" THEN [returned |-> _parse_response(http)]
        ELSE IF http.kind = "timeout" THEN [raised |-> "Timeout", msg |-> ""]
        ELSE IF http.kind = "connection" THEN [raised |-> "ConnectionError", msg |-> http.msg]
        ELSE [raised |-> "Exception", msg |-> http.msg]

TimeoutResult ==
    [success |-> FALSE, status_code |-> 408,
     error |-> "Request timeout after " \o IntToStr(TOOL_TIMEOUT_SECONDS) \o " seconds"]

execute_swapped_status(tool_id, parameters, tool_definition, http) ==
    LET outcome == try_block(tool_id, parameters, tool_definition, http)
    IN  IF "returned" \in DOMAIN outcome THEN outcome.returned
        ELSE IF outcome.raised = "Timeout"
        THEN [success |-> FALSE, status_code |-> 503, error |-> TimeoutResult.error]
        ELSE IF outcome.raised = "ConnectionError"
        THEN [success |-> FALSE, status_code |-> 408,
              error |-> "Connection failed: " \o outcome.msg]
        ELSE [success |-> FALSE, status_code |-> 500,
              error |-> "Execution failed: " \o outcome.msg]

execute_requests_errors_only(tool_id, parameters, tool_definition, http) ==
    LET outcome == try_block(tool_id, parameters, tool_definition, http)
    IN  IF "returned" \in DOMAIN outcome THEN outcome.returned
        ELSE IF outcome.raised = "Timeout" THEN TimeoutResult
        ELSE IF outcome.raised = "ConnectionError"
        THEN [success |-> FALSE, status_code |-> 503,
              error |-> "Connection failed: " \o outcome.msg]
        ELSE [raised |-> "Exception", msg |-> outcome.msg]

\* execute: the try block and its three except clauses.  A result with a
\* "raised" field would be an exception that leaves execute.
execute(tool_id, parameters, tool_definition, http) ==
    LET outcome == try_block(tool_id, parameters, tool_definition, http)
    IN  IF "returned" \in DOMAIN outcome THEN outcome.returned
        ELSE IF outcome.raised = "Timeout" THEN TimeoutResult
        ELSE IF outcome.raised = "ConnectionError"
        THEN [success |-> FALSE, status_code |-> 503,
              error |-> "Connection failed: " \o outcome.msg]
        ELSE [success |-> FALSE, status_code |-> 500,
              error |-> "Execution failed: " \o outcome.msg]

\* ------------------------------------------------------------------------
\* Configuration (src/config.py) and the external capabilities
\* ------------------------------------------------------------------------

DOMAINS ==
    {"INVOICING", "PAYMENTS", "REPORTING", "DISPUTES", "USER_MANAGEMENT",
     "RAG_QUERY", "SYSTEM_SEARCH", "GENERAL"}

\* sorted(DOMAINS): the order in which sorted(domain_counts.items()) lists them
SortedDomains ==
    << "DISPUTES", "GENERAL", "INVOICING", "PAYMENTS", "RAG_QUERY", "REPORTING",
       "SYSTEM_SEARCH", "USER_MANAGEMENT" >>

ERROR_TEMPLATES ==
    [ TIMEOUT |-> "The request took too long to complete. The service might be slow right now. Please try again in a moment.",
      AUTH |-> "There was an authentication issue. Please check that your API credentials are configured correctly.",
      NOT_FOUND |-> "I couldn't find the resource you're looking for. Please check that the ID or name is correct.",
      INVALID_INPUT |-> "Some of the information provided appears to be invalid. Please check your input and try again.",
      RATE_LIMIT |-> "You've made too many requests recently. Please wait a moment before trying again.",
      FORBIDDEN |-> "You don't have permission to perform this action. Please check your access rights.",
      SERVER_ERROR |-> "The service is experiencing issues. Please try again in a few minutes.",
      CONNECTION |-> "I couldn't connect to the service. Please check your internet connection.",
      UNKNOWN |-> "Something unexpected happened. Please try again or rephrase your request." ]

\* What the router's model call can do: return a text or raise
RouterOutputs ==
    { [content |-> "INVOICING"], [content |-> " user_management "],
      [content |-> "rag_query"], [content |-> "SYSTEM_SEARCH"],
      [content |-> "BILLING"], [raised |-> "router"] }

\* GlobalRouter.route
route(output) ==
    IF "raised" \in DOMAIN output THEN "GENERAL"
    ELSE LET d == Upper(Strip(output.content))
         IN  IF d \notin DOMAINS THEN "GENERAL" ELSE d

\* The tools ToolParser._parse_request produces from the collections
ParsedTools ==
    { [id |-> "get_user", name |-> "Get User", description |-> "Fetch one user",
       collection |-> "Users", method |-> "GET",
       url |-> "https://api.example.com/users/{id}",
       headers |-> << [key |-> "Authorization", value |-> "Bearer {{token}}"] >>,
       parameters |-> << [name |-> "verbose", type |-> "query"] >>,
       body_type |-> "none", domain |-> "USER_MANAGEMENT"],
      [id |-> "create_invoice", name |-> "Create Invoice", description |-> "",
       collection |-> "Billing", method |-> "POST",
       url |-> "https://api.example.com/invoices",
       headers |-> << [key |-> "Content-Type", value |-> "multipart/form-data"] >>,
       parameters |-> << [name |-> "amount", type |-> "formdata"] >>,
       body_type |-> "formdata", domain |-> "INVOICING"],
      [id |-> "send_invoice", name |-> "Send Invoice", description |-> "",
       collection |-> "Billing", method |-> "POST",
       url |-> "https://api.example.com/invoices/:id/send",
       headers |-> << >>, parameters |-> << >>,
       body_type |-> "raw", domain |-> "INVOICING"] }

\* the metadata index_tools stores for a tool, which is what retrieve_tools
\* returns for it (besides the score and the document text)
IndexMetadata(tool) ==
    [tool_id |-> tool.id, domain |-> tool.domain, method |-> tool.method,
     url |-> tool.url, name |-> tool.name]

\* The indexed tools, as the metadata index_tools stores and retrieve_tools returns
IndexedTools == { IndexMetadata(tool) : tool \in ParsedTools }

\* the longest list a retrieval returns in the model
MaxRetrieved == 2

\* ToolIndexer.retrieve_tools: a ranked list of distinct indexed tools of the domain
RetrievalResults(d) ==
    { ts \in UNION { [1..n -> {t \in IndexedTools : t.domain = d}] : n \in 0..MaxRetrieved } :
        \A i, j \in DOMAIN ts : i # j => ts[i] # ts[j] }

ParameterMaps ==
    { [items |-> << >>],
      [items |-> << [key |-> "id", value |-> [str |-> "7"]] >>] }

\* The JSON objects the agent's model call can return
DecisionObjects ==
    { [action |-> "respond", response |-> "Hello, how can I help?"],
      [action |-> "respond"],
      [action |-> "chat"],
      << >> }
    \cup { [action |-> "use_tool", tool_id |-> t, parameters |-> p] :
             t \in {"get_user", "send_invoice", "delete_user"}, p \in ParameterMaps }
    \cup { [action |-> "use_tool", parameters |-> [items |-> << >>]],
           [action |-> "use_tool", tool_id |-> "get_user"],
           [action |-> "use_tool", tool_id |-> "get_user", parameters |-> [list |-> 0]] }

\* What the agent's model call can do in decide_action: return non-JSON text,
\* JSON that is an object, JSON that is not an object, or raise
AgentOutputs ==
    { [text |-> "I am not sure which tool to use."], [json |-> [list |-> 0]],
      [raised |-> "agent"] }
    \cup { [json |-> d] : d \in DecisionObjects }

\* variant: the fallback decision asks for the text to be looked up with a tool
decide_action_fallback_use_tool(output) ==
    IF "json" \in DOMAIN output THEN output.json
    ELSE [action |-> "use_tool", tool_id |-> output.text,
          parameters |-> [items |-> << >>]]

\* SpecializedAgent.decide_action, for an output that is not a raise
decide_action(output) ==
    IF "json" \in DOMAIN output THEN output.json
    ELSE [action |-> "respond", response |-> output.text]

\* What the agent's model call can do in synthesize_response
SynthesisOutputs == { [content |-> "Here is the result."], [raised |-> "agent"] }

ResponseBodies ==
    { [json |-> [id |-> 42]], [json |-> << >>], [json |-> [list |-> 0]],
      [text |-> "<html>oops</html>"],
      [json |-> [error |-> "request timeout upstream"]],
      [json |-> [message |-> "invalid token"]] }

Statuses == {200, 201, 400, 401, 403, 404, 408, 429, 500, 502, 503}

\* What session.request can do
HttpOutcomes ==
    { [kind |-> "response", status_code |-> s, body |-> b] : s \in Statuses, b \in ResponseBodies }
    \cup { [kind |-> "timeout"],
           [kind |-> "connection", msg |-> "Max retries exceeded"],
           [kind |-> "connection", msg |-> "Read timeout on socket"],
           [kind |-> "exception", msg |-> "Invalid URL 'x': No scheme supplied"],
           [kind |-> "exception", msg |-> "boom"] }

\* the outcomes of the HTTP call of one execute call
HttpOutcomesFor(parameters, tool_definition) ==
    IF BuildException(parameters, tool_definition) # "" THEN {NotCalled} ELSE HttpOutcomes

UserQueries ==
    { "What tools do you have?", "What are your CAPABILITIES?",
      "Check the status of my request", "Get user 7" }

\* ------------------------------------------------------------------------
\* Workflow state (AgentState) and the position of the run
\* ------------------------------------------------------------------------

VARIABLES
    pc,                 \* the node to run next; "END"; "RAISED" when a node raised
    user_query, domain, retrieved_tools, retrieval_count, agent_decision,
    selected_tool, tool_result, execution_attempts, error_message,
    error_category, final_response, workflow_path,
    visited,            \* the nodes run so far, in order
    executor_calls,     \* the arguments of each executor.execute call made
    llm_calls,          \* the model-backed capabilities called so far
    arg, ret,           \* input and output of the function under test (pure-function specifications)
    absent_fields,      \* the AgentState keys the state dict of the run does not have
    chat_history,       \* the conversation so far
    console,            \* what the interactive loop has printed
    session,            \* the executor's requests.Session: its session-level headers
    in_flight,          \* per caller of the shared executor: its execute call's position and locals
    sent,               \* the requests handed to the network, in order
    twin                \* two runs of the workflow fed the same external results

state_vars ==
    << user_query, domain, retrieved_tools, retrieval_count, agent_decision,
       selected_tool, tool_result, execution_attempts, error_message,
       error_category, final_response, workflow_path >>

executor_vars == << session, in_flight, sent >>

session_vars == << absent_fields, chat_history, console, executor_vars, twin >>

vars == << pc, state_vars, visited, executor_calls, llm_calls, arg, ret, session_vars >>

\* the callers that share the module-level executor
Callers == {1, 2}

\* APIExecutor.__init__: a new session, and no execute call under way
ExecutorIdle ==
    /\ session = [headers |-> << >>]
    /\ in_flight = [c \in Callers |-> [stage |-> "idle"]]
    /\ sent = << >>

\* initialize_state
initialize_state(query) ==
    /\ user_query = query
    /\ domain = ""
    /\ retrieved_tools = << >>
    /\ retrieval_count = 0
    /\ agent_decision = EmptyDict
    /\ selected_tool = EmptyDict
    /\ tool_result = EmptyDict
    /\ execution_attempts = 0
    /\ error_message = ""
    /\ error_category = ""
    /\ final_response = ""
    /\ workflow_path = << >>
    /\ chat_history = << >>
    /\ absent_fields = {}

Init ==
    /\ \E q \in UserQueries : initialize_state(q)
    /\ pc = "route"
    /\ visited = << >>
    /\ executor_calls = << >>
    /\ llm_calls = << >>
    /\ arg = EmptyDict
    /\ ret = EmptyDict
    /\ console = << >>
    /\ ExecutorIdle
    /\ twin = [stage |-> "idle"]

\* ------------------------------------------------------------------------
\* Conditional edge functions and the edge tables of create_workflow
\* ------------------------------------------------------------------------

should_use_special_handler(d) ==
    IF d = "RAG_QUERY" THEN "rag"
    ELSE IF d = "SYSTEM_SEARCH" THEN "system_search"
    ELSE "continue"

should_call_tool_always(decision) == "call_tool"

should_call_tool(decision) ==
    IF Get(decision, "action", "") = "use_tool" THEN "call_tool" ELSE "synthesize"

IsTrue(result) == Get(result, "success", FALSE)

\* variant: reports success without looking at the attempt
check_tool_result_always_success(message, result) == "success"

check_tool_result(message, result) ==
    IF message # "" THEN "error"
    ELSE IF ~IsTrue(result) THEN "error"
    ELSE "success"

should_retry_tool(attempts, category) ==
    LET max_attempts == 2
        retryable == category \in {"TIMEOUT", "CONNECTION", "SERVER_ERROR"}
    IN  IF attempts < max_attempts /\ retryable THEN "retry" ELSE "give_up"

route_edges_no_special == [rag |-> "retrieve", system_search |-> "retrieve", continue |-> "retrieve"]

\* add_conditional_edges("route", should_use_special_handler, {...})
route_edges == [rag |-> "rag", system_search |-> "system_search", continue |-> "retrieve"]

\* add_conditional_edges("decide", should_call_tool, {...})
decide_edges_skip_synthesize == [call_tool |-> "call_tool", synthesize |-> "END"]

decide_edges == [call_tool |-> "call_tool", synthesize |-> "synthesize"]

call_tool_edges_retry == [error |-> "call_tool", success |-> "synthesize"]

\* add_conditional_edges("call_tool", check_tool_result, {...})
call_tool_edges == [error |-> "handle_error", success |-> "synthesize"]

\* ------------------------------------------------------------------------
\* Error messenger (src/utils/error_handler.py)
\* ------------------------------------------------------------------------

\* What the error handler's model call can do
ErrorLLMOutputs == { [content |-> "Sorry, that did not work. Please try again."],
                     [raised |-> "error_llm"] }

_use_template(category, error) ==
    IF category = "INVALID_INPUT" /\ Contains(Lower(error), "email")
    THEN "The email address you provided appears to be invalid. Please check and try again."
    ELSE IF category = "INVALID_INPUT"
            /\ (Contains(Lower(error), "amount") \/ Contains(Lower(error), "number"))
    THEN "The amount or number you provided is invalid. Please check the format and try again."
    ELSE ERROR_TEMPLATES[category]

_fallback_message(error) ==
    LET category == categorize_error(error)
    IN  IF category \in DOMAIN ERROR_TEMPLATES THEN ERROR_TEMPLATES[category]
        ELSE "I encountered an issue while processing your request. Please try again or rephrase your query."

_generate_with_llm(error, llm) ==
    IF "raised" \in DOMAIN llm THEN _fallback_message(error) ELSE llm.content

\* whether generate_error_message calls the model for this error
UsesLLM(error) == categorize_error(error) \notin DOMAIN ERROR_TEMPLATES

\* variant: an error of no specific category is passed on as it is
generate_error_message_raw_unknown(error, llm) ==
    LET error_category_ == categorize_error(error)
    IN  IF error_category_ = "UNKNOWN" THEN error
        ELSE _use_template(error_category_, error)

\* generate_error_message, for the outcome `llm` of the model call it may make
generate_error_message(error, llm) ==
    LET error_category_ == categorize_error(error)
    IN  IF error_category_ \in DOMAIN ERROR_TEMPLATES
        THEN _use_template(error_category_, error)
        ELSE _generate_with_llm(error, llm)

\* ------------------------------------------------------------------------
\* Workflow nodes (src/graph/lang_graph.py); each action is a node followed
\* by the evaluation of its outgoing edge
\* ------------------------------------------------------------------------

\* a node raised: the exception leaves workflow.invoke
Raise(node) ==
    /\ pc' = "RAISED"
    /\ visited' = Append(visited, node)
    /\ UNCHANGED << state_vars, executor_calls, arg, ret, session_vars >>

route_query ==
    /\ pc = "route"
    /\ llm_calls' = Append(llm_calls, "router")
    /\ IF "workflow_path" \in absent_fields
       THEN \* state["workflow_path"] raises KeyError after the router was called
            Raise("route")
       ELSE /\ \E output \in RouterOutputs :
                 LET d == route(output)
                 IN  /\ domain' = d
                     /\ workflow_path' = Append(workflow_path, "route:" \o d)
                     /\ pc' = route_edges[should_use_special_handler(d)]
            /\ visited' = Append(visited, "route")
            /\ absent_fields' = absent_fields \ {"domain", "domain_confidence"}
            /\ UNCHANGED << user_query, retrieved_tools, retrieval_count, agent_decision,
                            selected_tool, tool_result, execution_attempts, error_message,
                            error_category, final_response, executor_calls, arg, ret,
                            chat_history, console, executor_vars, twin >>

retrieve_tools ==
    /\ pc = "retrieve"
    /\ \/ /\ Raise("retrieve")
          /\ UNCHANGED llm_calls
       \/ \E tools \in RetrievalResults(domain) :
            /\ retrieved_tools' = tools
            /\ retrieval_count' = Len(tools)
            /\ workflow_path' = Append(workflow_path, "retrieve:" \o IntToStr(Len(tools)) \o "_tools")
            /\ pc' = "decide"
            /\ visited' = Append(visited, "retrieve")
            /\ UNCHANGED << user_query, domain, agent_decision, selected_tool, tool_result,
                            execution_attempts, error_message, error_category,
                            final_response, executor_calls, llm_calls, arg, ret, session_vars >>

\* variant: falls back to the first retrieved tool when the id matches none
FindTool_first_retrieved(tools, decision) ==
    LET hits == {i \in DOMAIN tools : "tool_id" \in DOMAIN decision
                                       /\ tools[i].tool_id = decision.tool_id}
    IN  IF hits = {} THEN (IF tools = << >> THEN EmptyDict ELSE tools[1])
        ELSE tools[CHOOSE i \in hits : \A j \in hits : i <= j]

\* next((t for t in retrieved_tools if t["tool_id"] == tool_id), None) or {}
FindTool(tools, decision) ==
    LET hits == {i \in DOMAIN tools : "tool_id" \in DOMAIN decision
                                       /\ tools[i].tool_id = decision.tool_id}
    IN  IF hits = {} THEN EmptyDict
        ELSE tools[CHOOSE i \in hits : \A j \in hits : i <= j]

agent_decide ==
    /\ pc = "decide"
    /\ llm_calls' = Append(llm_calls, "decide_action")
    /\ \E output \in AgentOutputs :
         IF "raised" \in DOMAIN output \/ ~IsDict(decide_action(output))
         THEN Raise("decide")
         ELSE LET decision == decide_action(output)
              IN  /\ agent_decision' = decision
                  /\ workflow_path' = Append(workflow_path,
                                             "decide:" \o Get(decision, "action", "unknown"))
                  /\ selected_tool' = IF Get(decision, "action", "") = "use_tool"
                                      THEN FindTool(retrieved_tools, decision)
                                      ELSE selected_tool
                  /\ pc' = decide_edges[should_call_tool(decision)]
                  /\ visited' = Append(visited, "decide")
                  /\ UNCHANGED << user_query, domain, retrieved_tools, retrieval_count,
                                  tool_result, execution_attempts, error_message,
                                  error_category, final_response, executor_calls, arg, ret, session_vars >>

call_tool ==
    /\ pc = "call_tool"
    /\ execution_attempts' = execution_attempts + 1
    /\ visited' = Append(visited, "call_tool")
    /\ IF "tool_id" \notin DOMAIN agent_decision
       THEN \* tool_call["tool_id"] raises KeyError inside the try block
            /\ error_message' = "'tool_id'"
            /\ error_category' = "EXECUTION_ERROR"
            /\ tool_result' = [success |-> FALSE, error |-> "'tool_id'"]
            /\ workflow_path' = Append(workflow_path, "execute:exception")
            /\ executor_calls' = executor_calls
       ELSE LET parameters == Get(agent_decision, "parameters", [items |-> << >>])
            IN  /\ executor_calls' = Append(executor_calls,
                                       [tool_id |-> agent_decision.tool_id,
                                        parameters |-> parameters,
                                        tool_definition |-> selected_tool])
                /\ \E http \in HttpOutcomesFor(parameters, selected_tool) :
                     LET result == execute(agent_decision.tool_id, parameters,
                                           selected_tool, http)
                         failed_message == Get(result, "error", "Tool execution failed")
                     IN  IF "raised" \in DOMAIN result
                         THEN \* executor.execute raised: the except branch
                              /\ error_message' = result.msg
                              /\ error_category' = "EXECUTION_ERROR"
                              /\ tool_result' = [success |-> FALSE, error |-> result.msg]
                              /\ workflow_path' = Append(workflow_path, "execute:exception")
                         ELSE /\ tool_result' = result
                              /\ workflow_path' =
                                    Append(workflow_path,
                                           "execute:" \o IntToStr(Get(result, "status_code", 0)))
                              /\ error_message' = IF IsTrue(result) THEN error_message
                                                  ELSE failed_message
                              /\ error_category' = IF IsTrue(result) THEN error_category
                                                   ELSE categorize_error(failed_message)
    \* check_tool_result writes error_message and error_category only when the
    \* message is empty after a failed attempt, which no attempt leaves
    /\ pc' = call_tool_edges[check_tool_result(error_message', tool_result')]
    /\ UNCHANGED << user_query, domain, retrieved_tools, retrieval_count, agent_decision,
                    selected_tool, final_response, llm_calls, arg, ret, session_vars >>

synthesize_response ==
    /\ pc = "synthesize"
    /\ IF "action" \notin DOMAIN agent_decision
       THEN Raise("synthesize") /\ UNCHANGED llm_calls
       ELSE IF agent_decision.action = "respond"
       THEN IF "response" \notin DOMAIN agent_decision
            THEN Raise("synthesize") /\ UNCHANGED llm_calls
            ELSE /\ final_response' = agent_decision.response
                 /\ workflow_path' = Append(workflow_path, "synthesize:direct")
                 /\ pc' = "END"
                 /\ visited' = Append(visited, "synthesize")
                 /\ UNCHANGED << user_query, domain, retrieved_tools, retrieval_count,
                                 agent_decision, selected_tool, tool_result,
                                 execution_attempts, error_message, error_category,
                                 executor_calls, llm_calls, arg, ret, session_vars >>
       ELSE /\ llm_calls' = Append(llm_calls, "synthesize_response")
            /\ \E output \in SynthesisOutputs :
                 IF "raised" \in DOMAIN output
                 THEN Raise("synthesize")
                 ELSE /\ final_response' = output.content
                      /\ workflow_path' = Append(workflow_path, "synthesize:from_tool")
                      /\ pc' = "END"
                      /\ visited' = Append(visited, "synthesize")
                      /\ UNCHANGED << user_query, domain, retrieved_tools, retrieval_count,
                                      agent_decision, selected_tool, tool_result,
                                      execution_attempts, error_message, error_category,
                                      executor_calls, arg, ret, session_vars >>

handle_error ==
    /\ pc = "handle_error"
    /\ \E llm \in ErrorLLMOutputs :
         /\ final_response' = generate_error_message(error_message, llm)
         /\ llm_calls' = IF UsesLLM(error_message) THEN Append(llm_calls, "error_llm")
                         ELSE llm_calls
    /\ workflow_path' = Append(workflow_path, "error:" \o error_category)
    /\ pc' = "END"
    /\ visited' = Append(visited, "handle_error")
    /\ UNCHANGED << user_query, domain, retrieved_tools, retrieval_count, agent_decision,
                    selected_tool, tool_result, execution_attempts, error_message,
                    error_category, executor_calls, arg, ret, session_vars >>

\* variant: the placeholder node leaves no tag
handle_rag_query_untraced ==
    /\ pc = "rag"
    /\ final_response' = "I can help you search our knowledge base."
    /\ pc' = "END"
    /\ visited' = Append(visited, "rag")
    /\ UNCHANGED << user_query, domain, retrieved_tools, retrieval_count, agent_decision,
                    selected_tool, tool_result, execution_attempts, error_message,
                    error_category, workflow_path, executor_calls, llm_calls, arg, ret,
                    session_vars >>

handle_rag_query ==
    /\ pc = "rag"
    /\ final_response' = "I can help you search our knowledge base. "
                         \o "However, the RAG system is not yet fully configured. "
                         \o "Please provide your question and I'll do my best to assist."
    /\ workflow_path' = Append(workflow_path, "rag:placeholder")
    /\ pc' = "END"
    /\ visited' = Append(visited, "rag")
    /\ UNCHANGED << user_query, domain, retrieved_tools, retrieval_count, agent_decision,
                    selected_tool, tool_result, execution_attempts, error_message,
                    error_category, executor_calls, llm_calls, arg, ret, session_vars >>

\* What list_all_tools can return: the indexed tools, or [] when listing fails
CatalogListings ==
    { << >>,
      << [tool_id |-> "get_user", name |-> "Get User", domain |-> "USER_MANAGEMENT",
          method |-> "GET", url |-> "https://api.example.com/users/{id}"],
         [tool_id |-> "create_invoice", name |-> "Create Invoice", domain |-> "INVOICING",
          method |-> "POST", url |-> "https://api.example.com/invoices"],
         [tool_id |-> "send_invoice", name |-> "Send Invoice", domain |-> "INVOICING",
          method |-> "POST", url |-> "https://api.example.com/invoices/:id/send"] >> }

\* domain_counts[d]
DomainCount(tools, d) ==
    Cardinality({i \in DOMAIN tools : Get(tools[i], "domain", "GENERAL") = d})

RECURSIVE SummaryLines(_, _)
\* the lines of sorted(domain_counts.items()), from the i-th domain on
SummaryLines(tools, i) ==
    IF i > Len(SortedDomains) THEN ""
    ELSE (IF DomainCount(tools, SortedDomains[i]) = 0 THEN ""
          ELSE "- " \o SortedDomains[i] \o ": "
               \o IntToStr(DomainCount(tools, SortedDomains[i])) \o " tools\n")
         \o SummaryLines(tools, i + 1)

tool_summary(tools) ==
    "I have access to " \o IntToStr(Len(tools)) \o " tools across these domains:\n"
    \o SummaryLines(tools, 1)

handle_system_search ==
    /\ pc = "system_search"
    /\ LET query_lower == Lower(user_query)
       IN  IF AnyIn({"available tools", "what can you do", "capabilities"}, query_lower)
           THEN \E tools \in CatalogListings :
                  /\ final_response' = tool_summary(tools)
                  /\ workflow_path' = Append(workflow_path, "system_search:list_tools")
           ELSE IF AnyIn({"status", "request", "history"}, query_lower)
           THEN /\ final_response' =
                     "To check request status, I'll need more details. "
                     \o "Could you provide a request ID or describe which request you're asking about?"
                /\ workflow_path' = Append(workflow_path, "system_search:status_query")
           ELSE /\ final_response' =
                     "I can help you search for available tools or check request status. What would you like to know?"
                /\ workflow_path' = Append(workflow_path, "system_search:general")
    /\ pc' = "END"
    /\ visited' = Append(visited, "system_search")
    /\ UNCHANGED << user_query, domain, retrieved_tools, retrieval_count, agent_decision,
                    selected_tool, tool_result, execution_attempts, error_message,
                    error_category, executor_calls, llm_calls, arg, ret, session_vars >>

Next ==
    \/ route_query
    \/ retrieve_tools
    \/ agent_decide
    \/ call_tool
    \/ synthesize_response
    \/ handle_error
    \/ handle_rag_query
    \/ handle_system_search

Spec == Init /\ [][Next]_vars

\* ------------------------------------------------------------------------
\* Properties of the workflow
\* ------------------------------------------------------------------------

RetryableCategories == {"TIMEOUT", "CONNECTION", "SERVER_ERROR"}

Taxonomy ==
    {"TIMEOUT", "AUTH", "NOT_FOUND", "INVALID_INPUT", "RATE_LIMIT", "FORBIDDEN",
     "SERVER_ERROR", "CONNECTION", "UNKNOWN", "EXECUTION_ERROR"}

\* the node run last, "" before Route
LastNode == IF Len(visited) = 0 THEN "" ELSE visited[Len(visited)]

Ran(node) == \E i \in DOMAIN visited : visited[i] = node

\* the latest CallTool attempt failed (tool_result and the error fields are
\* written by call_tool alone, so they describe the latest attempt)
AttemptFailed == Ran("call_tool") /\ ~IsTrue(tool_result)

\* C1: whenever a CallTool attempt fails with a retryable category and
\* execution_attempts < 2 (should_retry_tool answers "retry"), the next node is
\* CallTool again, with the same tool_id and parameters, and the re-invocation
\* raises execution_attempts by exactly 1.
C1_RetryableFailureReinvokesCallTool ==
    [][ /\ ( /\ pc = "call_tool"
             /\ ~IsTrue(tool_result')
             /\ should_retry_tool(execution_attempts', error_category') = "retry" )
           => pc' = "call_tool"
        /\ ( /\ pc = "call_tool"
             /\ AttemptFailed
             /\ should_retry_tool(execution_attempts, error_category) = "retry" )
           => /\ execution_attempts' = execution_attempts + 1
              /\ Len(executor_calls') = Len(executor_calls) + 1
              /\ executor_calls'[Len(executor_calls')].tool_id
                    = executor_calls[Len(executor_calls)].tool_id
              /\ executor_calls'[Len(executor_calls')].parameters
                    = executor_calls[Len(executor_calls)].parameters ]_vars

\* C2: after a CallTool attempt that fails with a non-retryable category, or
\* with execution_attempts at 2 or more, the next node is HandleError and
\* CallTool does not run again: CallTool is never the next node in a state
\* whose latest attempt failed that way, and the node after it is HandleError.
C2_TerminalFailureGoesToHandleError ==
    ( AttemptFailed /\ (error_category \notin RetryableCategories \/ execution_attempts >= 2) )
    => /\ pc # "call_tool"
       /\ LastNode = "call_tool" => pc = "handle_error"
       /\ \A i \in DOMAIN visited :
            visited[i] = "call_tool"
            => /\ i < Len(visited) => visited[i + 1] = "handle_error"
               /\ \A j \in DOMAIN visited : j > i => visited[j] # "call_tool"

C2_Witness ==
    /\ pc = "END"
    /\ AttemptFailed
    /\ error_category = "NOT_FOUND"
    /\ Len(visited) >= 2
    /\ visited[Len(visited) - 1] = "call_tool"
    /\ LastNode = "handle_error"

\* C3: in a run classified RAG_QUERY or SYSTEM_SEARCH, Retrieve, Decide and
\* CallTool never run and Route is followed by the matching handler and End;
\* with any other domain Route is followed by Retrieve.
C3_SpecialDomainsBypassTools ==
    /\ domain = "RAG_QUERY"
       => /\ visited \in { <<"route">>, <<"route", "rag">> }
          /\ pc = (IF visited = <<"route">> THEN "rag" ELSE "END")
    /\ domain = "SYSTEM_SEARCH"
       => /\ visited \in { <<"route">>, <<"route", "system_search">> }
          /\ pc = (IF visited = <<"route">> THEN "system_search" ELSE "END")
    /\ (domain \notin {"", "RAG_QUERY", "SYSTEM_SEARCH"})
       => /\ visited[1] = "route"
          /\ IF Len(visited) = 1 THEN pc = "retrieve" ELSE visited[2] = "retrieve"

C3_Witness ==
    /\ pc = "END"
    /\ domain = "SYSTEM_SEARCH"
    /\ visited = <<"route", "system_search">>

C3_WitnessContinue ==
    /\ domain = "GENERAL"
    /\ Ran("retrieve")

\* the Decide stage yielded a Respond decision: an action "respond" with its text
RespondDecision ==
    /\ Ran("decide")
    /\ pc # "RAISED" \/ LastNode # "decide"
    /\ Get(agent_decision, "action", "") = "respond"
    /\ "response" \in DOMAIN agent_decision

\* C4: after a Respond decision, final_response at End is the decision's text,
\* the synthesis capability is not called, and neither CallTool nor
\* HandleError runs.
C4_RespondPassesThrough ==
    RespondDecision
    => /\ ~Ran("call_tool") /\ ~Ran("handle_error")
       /\ \A i \in DOMAIN llm_calls : llm_calls[i] # "synthesize_response"
       /\ pc \in {"synthesize", "END"}
       /\ pc = "END" => /\ final_response = agent_decision.response
                        /\ visited = <<"route", "retrieve", "decide", "synthesize">>

C4_Witness ==
    /\ RespondDecision
    /\ pc = "END"
    /\ final_response = "I am not sure which tool to use."

C9_WitnessCategorized ==
    /\ error_category = "SERVER_ERROR"
    /\ pc = "END"

\* ------------------------------------------------------------------------
\* The API executor on its own: one execute call per behaviour
\* ------------------------------------------------------------------------

\* Tool definitions handed to execute, the empty and the incomplete ones included
ToolDefinitions ==
    { << >>,
      [method |-> "get"],
      [url |-> "https://api.example.com/users/{id}"],
      [method |-> "get", url |-> "https://api.example.com/users/{id}"],
      [method |-> "POST", url |-> "https://api.example.com/invoices/:id/send"] }

\* Parameter arguments handed to execute: maps, and JSON values that are no map
ParameterValues == ParameterMaps \cup { [list |-> 0], [null |-> 0] }

\* the state of the workflow variables while a function is exercised on its own
Idle(position) ==
    /\ initialize_state("")
    /\ pc = position
    /\ visited = << >>
    /\ executor_calls = << >>
    /\ llm_calls = << >>
    /\ arg = EmptyDict
    /\ ret = EmptyDict
    /\ console = << >>
    /\ ExecutorIdle
    /\ twin = [stage |-> "idle"]

InitExecutor == Idle("execute")

execute_call ==
    /\ pc = "execute"
    /\ \E tool_definition \in ToolDefinitions, parameters \in ParameterValues :
         \E http \in HttpOutcomesFor(parameters, tool_definition) :
           /\ arg' = [tool_definition |-> tool_definition, parameters |-> parameters,
                      http |-> http]
           /\ ret' = execute("tool", parameters, tool_definition, http)
    /\ pc' = "return"
    /\ UNCHANGED << state_vars, visited, executor_calls, llm_calls, session_vars >>

NextExecutor == execute_call

SpecExecutor == InitExecutor /\ [][NextExecutor]_vars

\* the HTTP call yielded a response with a status below 400
GoodResponse == arg.http.kind = "response" /\ arg.http.status_code < 400

\* C5: execute never raises: for every tool definition (empty or incomplete
\* ones too), every parameter argument and every outcome of the HTTP call it
\* returns a result record, with success = FALSE unless the call yielded a
\* response with a status below 400.
C5_ExecuteNeverRaises ==
    pc = "return"
    => /\ "raised" \notin DOMAIN ret
       /\ {"success", "status_code"} \subseteq DOMAIN ret
       /\ ret.success \in BOOLEAN
       /\ ~GoodResponse => ret.success = FALSE

C5_Witness ==
    /\ pc = "return"
    /\ arg.tool_definition = << >>
    /\ arg.http = NotCalled
    /\ ret.success = FALSE

C5_WitnessNonJson ==
    /\ pc = "return"
    /\ arg.http.kind = "response"
    /\ arg.http.status_code = 502
    /\ "text" \in DOMAIN arg.http.body
    /\ ret.success = FALSE

\* C6: without a response, execute returns success = FALSE with status 408
\* for a timeout, 503 for a connection failure and 500 for any other
\* exception (one raised while building the request included), each with a
\* non-empty error string.
C6_FailureStatusMapping ==
    (pc = "return" /\ arg.http.kind # "response")
    => /\ ret.success = FALSE
       /\ "error" \in DOMAIN ret /\ Len(ret.error) > 0
       /\ ret.status_code = (IF arg.http.kind = "timeout" THEN 408
                             ELSE IF arg.http.kind = "connection" THEN 503
                             ELSE 500)

C6_Witness ==
    /\ pc = "return"
    /\ arg.http.kind = "connection"
    /\ ret.status_code = 503

C6_WitnessBuild ==
    /\ pc = "return"
    /\ arg.http = NotCalled
    /\ arg.parameters = [list |-> 0]
    /\ ret.status_code = 500

\* C7: for a response, status_code is the response status, success holds iff
\* the status is below 400, data is the parsed JSON body or {raw_response: text}
\* for a body that is not JSON, and error is present iff success is false;
\* a 201 response with body {"id": 42} gives success, 201 and {"id": 42}.
C7_ResponseNormalisation ==
    (pc = "return" /\ arg.http.kind = "response")
    => /\ ret.status_code = arg.http.status_code
       /\ ret.success = (arg.http.status_code < 400)
       /\ "data" \in DOMAIN ret
       /\ ret.data = (IF "json" \in DOMAIN arg.http.body THEN arg.http.body.json
                      ELSE [raw_response |-> arg.http.body.text])
       /\ ("error" \in DOMAIN ret) = (ret.success = FALSE)
       /\ (arg.http.status_code = 201 /\ arg.http.body = [json |-> [id |-> 42]])
          => ret = [success |-> TRUE, status_code |-> 201, data |-> [id |-> 42]]

C7_Witness ==
    /\ pc = "return"
    /\ arg.http.kind = "response"
    /\ arg.http.status_code = 201
    /\ ret = [success |-> TRUE, status_code |-> 201, data |-> [id |-> 42]]

C7_WitnessRaw ==
    /\ pc = "return"
    /\ arg.http.kind = "response"
    /\ arg.http.status_code = 404
    /\ ret.data = [raw_response |-> "<html>oops</html>"]
    /\ "error" \in DOMAIN ret

\* ------------------------------------------------------------------------
\* categorize_error on its own
\* ------------------------------------------------------------------------

\* Pieces of error text: executor messages, keywords in several cases, filler
Fragments ==
    << "Request timeout after 30 seconds", "HTTP 408", "Unauthorized - Authentication required",
       "bad TOKEN", "Error 404: user not found", "Bad Request - Invalid parameters",
       "validation failed", "Rate Limit Exceeded", "Forbidden - Access denied",
       "Internal Server Error", "code 503", "Connection failed: refused", "NETWORK down",
       "boom" >>

\* the most fragments one error text is made of
MaxFragments == 2

RECURSIVE Join(_, _)
\* the fragments fs[i..], separated by blanks
Join(fs, i) ==
    IF i > Len(fs) THEN ""
    ELSE IF i = Len(fs) THEN fs[i]
    ELSE fs[i] \o " " \o Join(fs, i + 1)

ErrorTexts ==
    { Join(fs, 1) : fs \in UNION { [1..n -> {Fragments[k] : k \in DOMAIN Fragments}] :
                                     n \in 1..MaxFragments } }

InitCategorize == Idle("categorize")

categorize_call ==
    /\ pc = "categorize"
    /\ \E error \in ErrorTexts :
         /\ arg' = [error |-> error]
         /\ ret' = [category |-> categorize_error(error),
                    category_of_upper |-> categorize_error(Upper(error))]
    /\ pc' = "return"
    /\ UNCHANGED << state_vars, visited, executor_calls, llm_calls, session_vars >>

NextCategorize == categorize_call

SpecCategorize == InitCategorize /\ [][NextCategorize]_vars

\* the keyword sets in their priority order
PriorityOrder ==
    << [category |-> "TIMEOUT", words |-> {"timeout", "408"}],
       [category |-> "AUTH",
        words |-> {"authentication", "unauthorized", "401", "api key", "token"}],
       [category |-> "NOT_FOUND", words |-> {"not found", "404"}],
       [category |-> "INVALID_INPUT", words |-> {"invalid", "bad request", "400", "validation"}],
       [category |-> "RATE_LIMIT", words |-> {"rate limit", "429"}],
       [category |-> "FORBIDDEN", words |-> {"forbidden", "403"}],
       [category |-> "SERVER_ERROR",
        words |-> {"500", "internal server", "503", "service unavailable"}],
       [category |-> "CONNECTION", words |-> {"connection", "network"}] >>

\* the indices of the keyword sets with a member occurring in the text, any case
MatchingSets(text) ==
    { i \in DOMAIN PriorityOrder :
        \E w \in PriorityOrder[i].words :
          \E k \in 1..Len(text) :
            /\ k + Len(w) - 1 <= Len(text)
            /\ \A m \in 1..Len(w) :
                 LowerChar(SubSeq(text, k + m - 1, k + m - 1)) = SubSeq(w, m, m) }

\* C8: categorize_error answers for every text, regardless of case, with the
\* first category in the order TIMEOUT, AUTH, NOT_FOUND, INVALID_INPUT,
\* RATE_LIMIT, FORBIDDEN, SERVER_ERROR, CONNECTION whose keyword set has a
\* member occurring in the text, and with UNKNOWN when none has;
\* "Error 404: user not found" gives NOT_FOUND.
C8_FirstMatchingCategory ==
    pc = "return"
    => /\ ret.category =
            (IF MatchingSets(arg.error) = {} THEN "UNKNOWN"
             ELSE PriorityOrder[CHOOSE i \in MatchingSets(arg.error) :
                                  \A j \in MatchingSets(arg.error) : i <= j].category)
       /\ ret.category_of_upper = ret.category
       /\ arg.error = "Error 404: user not found" => ret.category = "NOT_FOUND"

\* a text matching several keyword sets: AUTH ("token") wins over INVALID_INPUT
C8_Witness ==
    /\ pc = "return"
    /\ arg.error = "bad TOKEN validation failed"
    /\ Cardinality(MatchingSets(arg.error)) = 2
    /\ ret.category = "AUTH"

\* ------------------------------------------------------------------------
\* URL templating on its own
\* ------------------------------------------------------------------------

UrlTemplates ==
    { "/users/{id}/profile/{name}", "/users/:id", "/x/{{id}}/{name}", "/plain",
      "/a/{id}/b/{id}", "/items/:x/{{name}}" }

UrlKeys == {"id", "name", "x"}

UrlValues ==
    { [str |-> "7"], [str |-> "x"], [int |-> 5], [str |-> "{name}"], [str |-> "id"] }

\* the most entries of a parameter map handed to _build_url
MaxParams == 2

\* the insertion-ordered maps with distinct keys
UrlParameterMaps ==
    { [items |-> its] :
        its \in { q \in UNION { [1..n -> [key : UrlKeys, value : UrlValues]] : n \in 0..MaxParams } :
                    \A i, j \in DOMAIN q : i # j => q[i].key # q[j].key } }

\* the same map in every iteration order
Reorderings(parameters) ==
    { [items |-> [i \in DOMAIN parameters.items |-> parameters.items[f[i]]]] :
        f \in { g \in [DOMAIN parameters.items -> DOMAIN parameters.items] :
                  \A i, j \in DOMAIN parameters.items : i # j => g[i] # g[j] } }

InitUrl == Idle("build_url")

build_url_call ==
    /\ pc = "build_url"
    /\ \E url_template \in UrlTemplates, parameters \in UrlParameterMaps :
         /\ arg' = [url_template |-> url_template, parameters |-> parameters]
         /\ ret' = [url |-> _build_url(url_template, parameters),
                    urls_by_order |-> { _build_url(url_template, q) : q \in Reorderings(parameters) },
                    again |-> _build_url(_build_url(url_template, parameters), parameters)]
    /\ pc' = "return"
    /\ UNCHANGED << state_vars, visited, executor_calls, llm_calls, session_vars >>

NextUrl == build_url_call

SpecUrl == InitUrl /\ [][NextUrl]_vars

\* the spans of the template that a placeholder of the key occupies
PlaceholderSpans(url_template, key) ==
    { <<i, i + Len(Patterns(key)[n]) - 1>> :
        <<i, n>> \in { c \in (1..Len(url_template)) \X (1..3) :
                         /\ c[1] + Len(Patterns(key)[c[2]]) - 1 <= Len(url_template)
                         /\ SubSeq(url_template, c[1], c[1] + Len(Patterns(key)[c[2]]) - 1)
                               = Patterns(key)[c[2]] } }

\* no placeholder of one parameter shares a character of the template with a
\* placeholder of another
NonOverlapping(url_template, parameters) ==
    \A k1, k2 \in ParamKeys(parameters) :
      k1 # k2 =>
        \A s1 \in PlaceholderSpans(url_template, k1), s2 \in PlaceholderSpans(url_template, k2) :
          s1[2] < s2[1] \/ s2[2] < s1[1]

\* C10: for every template and parameter map (any values) whose placeholders
\* do not overlap, every iteration order of the map yields the same URL and
\* substituting again into the result changes nothing;
\* {id: "7", name: "x"} into /users/{id}/profile/{name} gives /users/7/profile/x.
C10_UrlOrderIndependentIdempotent ==
    (pc = "return" /\ NonOverlapping(arg.url_template, arg.parameters))
    => /\ ret.urls_by_order = {ret.url}
       /\ ret.again = ret.url
       /\ ( /\ arg.url_template = "/users/{id}/profile/{name}"
            /\ arg.parameters \in Reorderings([items |-> << [key |-> "id", value |-> [str |-> "7"]],
                                                            [key |-> "name", value |-> [str |-> "x"]] >>]) )
          => ret.url = "/users/7/profile/x"

\* ------------------------------------------------------------------------
\* URL templating with parameter names that contain one another
\* ------------------------------------------------------------------------

NestedNameTemplates ==
    { "/x/:id_type", "/x/{{id}}", "/x/{id}/{id_type}", "/a/{id}/b/{id}",
      "/t/{{id_type}}/:id", "/plain" }

NestedNameKeys == {"id", "id_type"}

\* values without a brace or a colon
PlainValues == { [str |-> "7"], [str |-> "passport"], [int |-> 5], [str |-> "42"] }

NestedNameMaps ==
    { [items |-> its] :
        its \in { q \in UNION { [1..n -> [key : NestedNameKeys, value : PlainValues]] :
                                  n \in 0..MaxParams } :
                    \A i, j \in DOMAIN q : i # j => q[i].key # q[j].key } }

InitNestedNames == Idle("build_url_nested")

\* one _build_url call; after_one[i] is the URL after the i-th parameter alone
build_url_nested_call ==
    /\ pc = "build_url_nested"
    /\ \E url_template \in NestedNameTemplates, parameters \in NestedNameMaps :
         /\ arg' = [url_template |-> url_template, parameters |-> parameters]
         /\ ret' = [url |-> _build_url(url_template, parameters),
                    urls_by_order |-> { _build_url(url_template, q) : q \in Reorderings(parameters) },
                    after_one |-> [i \in DOMAIN parameters.items |->
                                     _build_url(url_template, [items |-> << parameters.items[i] >>])]]
    /\ pc' = "return"
    /\ UNCHANGED << state_vars, visited, executor_calls, llm_calls, session_vars >>

NextNestedNames == build_url_nested_call

SpecNestedNames == InitNestedNames /\ [][NextNestedNames]_vars

\* C11: the three syntaxes are tried in the order {{key}}, {key}, :key, so that
\* every occurrence of a parameter's placeholder is replaced by the value and
\* no brace of it is left over; substituting one parameter leaves every
\* placeholder of a different parameter in place, also when the one name is
\* contained in the other, and the URL is the same in either iteration order:
\* id and id_type into /x/:id_type give /x/<id_type's value>.
C11_PlaceholdersOfOtherNamesUntouched ==
    pc = "return"
    => /\ \A i \in DOMAIN arg.parameters.items :
            LET key == arg.parameters.items[i].key
            IN  /\ \A n \in 1..3 : ~Contains(ret.after_one[i], Patterns(key)[n])
                /\ \A j \in DOMAIN arg.parameters.items :
                     arg.parameters.items[j].key # key
                     => \A n \in 1..3 :
                          Contains(arg.url_template, Patterns(arg.parameters.items[j].key)[n])
                          => Contains(ret.after_one[i], Patterns(arg.parameters.items[j].key)[n])
       /\ ret.urls_by_order = {ret.url}
       /\ (arg.url_template = "/x/{{id}}"
           /\ arg.parameters = [items |-> << [key |-> "id", value |-> [str |-> "7"]] >>])
          => ret.url = "/x/7"
       /\ (arg.url_template = "/x/:id_type"
           /\ ParamKeys(arg.parameters) = {"id", "id_type"})
          => ret.url = "/x/" \o PyStr(ParamValue(arg.parameters, "id_type"))

\* ------------------------------------------------------------------------
\* The request execute sends: one execute call per behaviour, over tool
\* definitions with declared parameters and headers
\* ------------------------------------------------------------------------

\* declared parameter lists of a tool definition; a declaration may lack its name
ParameterDeclarations ==
    { << >>,
      << [name |-> "amount", type |-> "query"] >>,
      << [name |-> "amount", type |-> "query"], [name |-> "id", type |-> "path"] >>,
      << [name |-> "amount", type |-> "body"], [name |-> "note", type |-> "formdata"] >>,
      << [name |-> "a", type |-> "query"], [name |-> "b", type |-> "header"] >>,
      << [type |-> "query"] >>,
      << [name |-> "amount", type |-> "body"], [type |-> "body"], [name |-> "id", type |-> "path"] >> }

\* declared header lists; an entry may lack its key or have an empty value
HeaderDeclarations ==
    { << >>,
      << [key |-> "X-Request-Id", value |-> "req-{id}"] >>,
      << [key |-> "Authorization", value |-> "Token static"] >>,
      << [key |-> "X-Empty", value |-> ""], [value |-> "v"] >> }

RequestToolDefinitions ==
    { [method |-> m, url |-> "https://api.example.com/items/{id}",
       parameters |-> ds, headers |-> hs] @@ bt :
        m \in {"GET", "post", "PATCH", "DELETE"}, ds \in ParameterDeclarations,
        hs \in HeaderDeclarations,
        bt \in { << >>, [body_type |-> "raw"], [body_type |-> "formdata"] } }
    \cup { [method |-> "POST", url |-> "https://api.example.com/items"],
           [method |-> "get", url |-> "https://api.example.com/items"] }

RequestParameterMaps ==
    { [items |-> << >>],
      [items |-> << [key |-> "amount", value |-> [int |-> 5]],
                    [key |-> "unused", value |-> [str |-> "z"]] >>],
      [items |-> << [key |-> "a", value |-> [int |-> 1]],
                    [key |-> "b", value |-> [int |-> 2]] >>],
      [items |-> << [key |-> "id", value |-> [str |-> "7"]],
                    [key |-> "amount", value |-> [int |-> 5]],
                    [key |-> "api_key", value |-> [str |-> "k1"]] >>],
      [items |-> << [key |-> "auth_token", value |-> [str |-> "t0"]],
                    [key |-> "api_key", value |-> [str |-> "k1"]] >>],
      [items |-> << [key |-> "auth_token", value |-> [str |-> "t0"]],
                    [key |-> "note", value |-> [str |-> "hi"]] >>] }

RequestHttpOutcomes ==
    { [kind |-> "response", status_code |-> 200, body |-> [json |-> << >>]],
      [kind |-> "timeout"] }

InitRequest == Idle("execute_request")

\* one execute call; ret.request is what session.request was called with, or
\* [raised |-> message] when building the request raised and no call was made
execute_request_call ==
    /\ pc = "execute_request"
    /\ \E tool_definition \in RequestToolDefinitions, parameters \in RequestParameterMaps :
         \E http \in IF BuildException(parameters, tool_definition) # ""
                     THEN {NotCalled} ELSE RequestHttpOutcomes :
           /\ arg' = [tool_definition |-> tool_definition, parameters |-> parameters,
                      http |-> http]
           /\ ret' = [request |-> request_kwargs(parameters, tool_definition),
                      result |-> execute("tool", parameters, tool_definition, http)]
    /\ pc' = "return"
    /\ UNCHANGED << state_vars, visited, executor_calls, llm_calls, session_vars >>

NextRequest == execute_request_call

SpecRequest == InitRequest /\ [][NextRequest]_vars

\* a request was handed to session.request
RequestSent == pc = "return" /\ "raised" \notin DOMAIN ret.request

\* the key/value pairs of a dict
Pairs(d) == { << d.items[i].key, d.items[i].value >> : i \in DOMAIN d.items }

\* the names the tool definition declares with one of the types
DeclaredNames(tool_definition, types) ==
    { d.name : d \in { e \in { Get(tool_definition, "parameters", << >>)[i] :
                                 i \in DOMAIN Get(tool_definition, "parameters", << >>) } :
                         "name" \in DOMAIN e /\ Get(e, "type", "") \in types } }

\* the query parameters of the request sent: none without a params argument
SentQuery == IF "params" \in DOMAIN ret.request THEN Pairs(ret.request.params) ELSE {}

\* C12: for a GET tool, the query parameters sent are exactly the incoming
\* parameters whose name is declared with type query, each value as a string;
\* undeclared parameters and parameters declared with another type are not
\* sent: declared [amount(query)] with {amount: 5, unused: "z"} sends amount=5.
C12_GetQueryIsDeclaredQueryParameters ==
    (RequestSent /\ ret.request.method = "GET")
    => /\ SentQuery =
            { << arg.parameters.items[i].key, PyStr(arg.parameters.items[i].value) >> :
                i \in { j \in DOMAIN arg.parameters.items :
                          arg.parameters.items[j].key
                            \in DeclaredNames(arg.tool_definition, {"query"}) } }
       /\ {"json", "data"} \cap DOMAIN ret.request = {}
       /\ ( /\ Get(arg.tool_definition, "parameters", << >>)
                 = << [name |-> "amount", type |-> "query"] >>
            /\ ParamKeys(arg.parameters) = {"amount", "unused"} )
          => SentQuery = { << "amount", "5" >> }

C12_Witness ==
    /\ RequestSent
    /\ ret.request.method = "GET"
    /\ Get(arg.tool_definition, "parameters", << >>) = << [name |-> "amount", type |-> "query"] >>
    /\ ParamKeys(arg.parameters) = {"amount", "unused"}
    /\ SentQuery = { << "amount", "5" >> }

\* the body of the request sent, under whichever argument carries it
SentBody ==
    IF "json" \in DOMAIN ret.request THEN Pairs(ret.request.json)
    ELSE IF "data" \in DOMAIN ret.request THEN Pairs(ret.request.data)
    ELSE {}

\* the request sent is a POST, PUT or PATCH
BodyMethod == RequestSent /\ ret.request.method \in {"POST", "PUT", "PATCH"}

\* the incoming parameters whose name is in the set, as key/value pairs
IncomingPairs(names) ==
    { << arg.parameters.items[i].key, arg.parameters.items[i].value >> :
        i \in { j \in DOMAIN arg.parameters.items : arg.parameters.items[j].key \in names } }

\* the tool definition declares a parameter of type body or formdata
DeclaresBody ==
    \E i \in DOMAIN Get(arg.tool_definition, "parameters", << >>) :
       Get(Get(arg.tool_definition, "parameters", << >>)[i], "type", "") \in {"body", "formdata"}

\* C13: for a POST/PUT/PATCH tool declaring at least one body or formdata
\* parameter, the body sent is exactly the declared body/formdata parameters
\* present in the incoming map, with their incoming values; declared but
\* absent parameters are omitted and every other incoming parameter is left out.
C13_DeclaredBodyParametersOnly ==
    (BodyMethod /\ DeclaresBody)
    => /\ {"json", "data"} \cap DOMAIN ret.request # {}
       /\ SentBody = IncomingPairs(DeclaredNames(arg.tool_definition, {"body", "formdata"}))

\* amount is declared and present, note is declared and absent, id and api_key
\* are present and not declared for the body
C13_Witness ==
    /\ BodyMethod
    /\ Get(arg.tool_definition, "parameters", << >>)
         = << [name |-> "amount", type |-> "body"], [name |-> "note", type |-> "formdata"] >>
    /\ ParamKeys(arg.parameters) = {"id", "amount", "api_key"}
    /\ SentBody = { << "amount", [int |-> 5] >> }

\* C14: for a POST/PUT/PATCH tool declaring no body or formdata parameter, the
\* body sent is exactly the incoming parameters whose name is not declared as
\* path or query; with no declarations and the map {a: 1, b: 2} the body is
\* {a: 1, b: 2}.
C14_FallbackBodyExcludesPathAndQuery ==
    (BodyMethod /\ ~DeclaresBody)
    => /\ {"json", "data"} \cap DOMAIN ret.request # {}
       /\ SentBody = IncomingPairs(ParamKeys(arg.parameters)
                                   \ DeclaredNames(arg.tool_definition, {"path", "query"}))
       /\ ( /\ Get(arg.tool_definition, "parameters", << >>) = << >>
            /\ ParamKeys(arg.parameters) = {"a", "b"} )
          => SentBody = { << "a", [int |-> 1] >>, << "b", [int |-> 2] >> }

\* amount is declared as query and id as path, api_key is not declared
C14_Witness ==
    /\ BodyMethod
    /\ Get(arg.tool_definition, "parameters", << >>)
         = << [name |-> "amount", type |-> "query"], [name |-> "id", type |-> "path"] >>
    /\ ParamKeys(arg.parameters) = {"id", "amount", "api_key"}
    /\ SentBody = { << "api_key", [str |-> "k1"] >> }

C14_WitnessNoDeclarations ==
    /\ BodyMethod
    /\ "parameters" \notin DOMAIN arg.tool_definition
    /\ SentBody = { << "a", [int |-> 1] >>, << "b", [int |-> 2] >> }

\* the value of the header of the request sent, "" when it is not carried
SentHeader(name) ==
    IF \E p \in Pairs(ret.request.headers) : p[1] = name
    THEN (CHOOSE p \in Pairs(ret.request.headers) : p[1] = name)[2]
    ELSE ""

\* the Authorization header the tool definition declares, "" when none
DeclaredAuthorization ==
    IF \E i \in DOMAIN Get(arg.tool_definition, "headers", << >>) :
          Get(Get(arg.tool_definition, "headers", << >>)[i], "key", "") = "Authorization"
    THEN "Token static"
    ELSE ""

\* C15: with api_key or auth_token in the parameter map the headers sent carry
\* Authorization: Bearer <value>, api_key's value when both are present; with
\* neither, no Authorization header is synthesized (the headers carry one only
\* when the tool definition declares it).
C15_BearerAuthorization ==
    RequestSent
    => SentHeader("Authorization") =
         (IF "api_key" \in ParamKeys(arg.parameters)
          THEN "Bearer " \o PyStr(ParamValue(arg.parameters, "api_key"))
          ELSE IF "auth_token" \in ParamKeys(arg.parameters)
          THEN "Bearer " \o PyStr(ParamValue(arg.parameters, "auth_token"))
          ELSE DeclaredAuthorization)

C15_Witness ==
    /\ RequestSent
    /\ {"api_key", "auth_token"} \subseteq ParamKeys(arg.parameters)
    /\ SentHeader("Authorization") = "Bearer k1"

C15_WitnessToken ==
    /\ RequestSent
    /\ ParamKeys(arg.parameters) = {"auth_token", "note"}
    /\ DeclaredAuthorization = "Token static"
    /\ SentHeader("Authorization") = "Bearer t0"

C15_WitnessNone ==
    /\ RequestSent
    /\ ParamKeys(arg.parameters) = {"a", "b"}
    /\ DeclaredAuthorization = ""
    /\ SentHeader("Authorization") = ""

\* ------------------------------------------------------------------------
\* Placeholder substitution in a declared header value, next to _build_url
\* on the same text
\* ------------------------------------------------------------------------

\* header values with {key} and {{key}} placeholders
HeaderTexts ==
    { "Bearer {{token}}", "Bearer {token}", "{id}-{token}", "static", "{{id}}/{id}" }

HeaderKeys == {"token", "id"}

HeaderParameterMaps ==
    { [items |-> its] :
        its \in { q \in UNION { [1..n -> [key : HeaderKeys, value : PlainValues]] :
                                  n \in 0..MaxParams } :
                    \A i, j \in DOMAIN q : i # j => q[i].key # q[j].key } }

InitHeaderValue == Idle("build_headers")

\* one _build_headers call for a tool definition declaring the header X-Value,
\* and one _build_url call on the header's text
build_headers_call ==
    /\ pc = "build_headers"
    /\ \E text \in HeaderTexts, parameters \in HeaderParameterMaps :
         /\ arg' = [text |-> text, parameters |-> parameters]
         /\ ret' = [headers |-> _build_headers(<< [key |-> "X-Value", value |-> text] >>,
                                               parameters),
                    url |-> _build_url(text, parameters)]
    /\ pc' = "return"
    /\ UNCHANGED << state_vars, visited, executor_calls, llm_calls, session_vars >>

NextHeaderValue == build_headers_call

SpecHeaderValue == InitHeaderValue /\ [][NextHeaderValue]_vars

\* C16: for every header value with {key} and {{key}} placeholders and every
\* parameter map, the substituted header value equals what _build_url gives
\* for the same text; a {{key}} placeholder becomes exactly the value.
C16_HeaderSubstitutionMatchesUrl ==
    pc = "return"
    => /\ \E i \in DOMAIN ret.headers.items :
            /\ ret.headers.items[i].key = "X-Value"
            /\ ret.headers.items[i].value = ret.url
       /\ (arg.text = "Bearer {{token}}" /\ "token" \in ParamKeys(arg.parameters))
          => \E i \in DOMAIN ret.headers.items :
               /\ ret.headers.items[i].key = "X-Value"
               /\ ret.headers.items[i].value
                    = "Bearer " \o PyStr(ParamValue(arg.parameters, "token"))

\* ------------------------------------------------------------------------
\* generate_error_message on its own
\* ------------------------------------------------------------------------

InitErrorMessage == Idle("generate_error_message")

\* one generate_error_message call; the model call has an outcome only when
\* it is made
generate_error_message_call ==
    /\ pc = "generate_error_message"
    /\ \E error \in ErrorTexts :
         \E llm \in IF UsesLLM(error) THEN ErrorLLMOutputs ELSE {NotCalled} :
           /\ arg' = [error |-> error, llm |-> llm]
           /\ ret' = [message |-> generate_error_message(error, llm),
                      category |-> categorize_error(error),
                      llm_called |-> UsesLLM(error)]
    /\ pc' = "return"
    /\ UNCHANGED << state_vars, visited, executor_calls, llm_calls, session_vars >>

NextErrorMessage == generate_error_message_call

SpecErrorMessage == InitErrorMessage /\ [][NextErrorMessage]_vars

\* the canned texts of a category: its template and, for INVALID_INPUT, the
\* two texts naming what was invalid
CannedTexts(category) ==
    {ERROR_TEMPLATES[category]}
    \cup (IF category = "INVALID_INPUT"
          THEN {"The email address you provided appears to be invalid. Please check and try again.",
                "The amount or number you provided is invalid. Please check the format and try again."}
          ELSE {})

\* C17: generate_error_message returns the canned text of the error's
\* category for the eight specific categories without calling the generation
\* capability; for an error whose category is UNKNOWN it calls the generation
\* capability and returns its text, or the UNKNOWN template or the hardcoded
\* apology when that call fails.
C17_UnknownDelegatesToGeneration ==
    pc = "return"
    => /\ ret.category # "UNKNOWN"
          => ~ret.llm_called /\ ret.message \in CannedTexts(ret.category)
       /\ ret.category = "UNKNOWN"
          => /\ ret.llm_called
             /\ "content" \in DOMAIN arg.llm => ret.message = arg.llm.content
             /\ "raised" \in DOMAIN arg.llm
                => ret.message \in
                     { ERROR_TEMPLATES["UNKNOWN"],
                       "I encountered an issue while processing your request. Please try again or rephrase your query." }

\* ------------------------------------------------------------------------
\* Properties of the workflow: system search and the terminal stages
\* ------------------------------------------------------------------------

\* C18: a run for the query "What tools do you have?" that is classified
\* SYSTEM_SEARCH ends with the per-domain tool count summary as final_response
\* and workflow_path exactly <<"route:SYSTEM_SEARCH", "system_search:list_tools">>.
C18_WhatToolsListsTools ==
    (pc = "END" /\ user_query = "What tools do you have?" /\ domain = "SYSTEM_SEARCH")
    => /\ workflow_path = << "route:SYSTEM_SEARCH", "system_search:list_tools" >>
       /\ final_response \in { tool_summary(tools) : tools \in CatalogListings }

TerminalStages == {"synthesize", "handle_error", "rag", "system_search"}

\* the terminal stages run so far, as positions of visited
TerminalRuns == { i \in DOMAIN visited : visited[i] \in TerminalStages }

\* C19: in every run that reaches End exactly one of the stages Synthesize,
\* HandleError, RagHandler, SystemSearchHandler has run, as the last node, and
\* final_response changes only in the step of a terminal stage of a run in
\* which no terminal stage ran before: no other node writes it and it is
\* written once.
C19_FinalResponseWrittenOnceByTerminalStage ==
    /\ [](pc = "END" => Cardinality(TerminalRuns) = 1 /\ LastNode \in TerminalStages)
    /\ [][ final_response' # final_response
           => /\ TerminalRuns = {}
              /\ Len(visited') = Len(visited) + 1
              /\ visited'[Len(visited')] \in TerminalStages
              /\ pc' = "END" ]_vars

C19_Witness ==
    /\ pc = "END"
    /\ visited = << "route", "retrieve", "decide", "call_tool", "handle_error" >>
    /\ final_response # ""

C19_WitnessSynthesize ==
    /\ pc = "END"
    /\ visited = << "route", "retrieve", "decide", "call_tool", "synthesize" >>
    /\ final_response = "Here is the result."

\* ------------------------------------------------------------------------
\* The interactive loop (src/main.py): each query is handed to the workflow
\* in the state dict run_interactive builds
\* ------------------------------------------------------------------------

\* the keys of AgentState
AgentStateFields ==
    { "user_query", "chat_history", "domain", "domain_confidence", "retrieved_tools",
      "retrieval_count", "agent_decision", "selected_tool", "tool_result",
      "execution_attempts", "error_message", "error_category", "final_response",
      "workflow_path" }

\* the lines typed at the prompt
InteractiveInputs ==
    { "quit", " Q ", "Exit", "", "   ", "What tools do you have?", " Get user 7 ",
      "Check the status of my request", "Send an invoice", "refund order 12" }

\* the most lines the loop prints in the model
MaxTurns == 6

InitInteractive == Idle("input")

\* the loop body up to workflow.invoke: the state dict has the keys
\* user_query, chat_history and error_message (None, the empty message)
run_interactive_input ==
    /\ pc = "input"
    /\ Len(console) < MaxTurns
    /\ \E raw \in InteractiveInputs :
         LET user_input == Strip(raw)
         IN  IF Lower(user_input) \in {"quit", "exit", "q"}
             THEN /\ console' = Append(console, "Goodbye!")
                  /\ pc' = "exit"
                  /\ UNCHANGED << state_vars, visited, executor_calls, llm_calls, arg, ret,
                                  absent_fields, chat_history, executor_vars, twin >>
             ELSE IF user_input = ""
             THEN UNCHANGED vars
             ELSE /\ user_query' = user_input
                  /\ error_message' = ""
                  /\ absent_fields' =
                        AgentStateFields \ {"user_query", "chat_history", "error_message"}
                  /\ pc' = "route"
                  /\ visited' = << >>
                  /\ UNCHANGED << domain, retrieved_tools, retrieval_count, agent_decision,
                                  selected_tool, tool_result, execution_attempts,
                                  error_category, final_response, workflow_path,
                                  executor_calls, llm_calls, arg, ret, chat_history, console,
                                  executor_vars, twin >>

\* the loop body after workflow.invoke: the response is printed and the
\* exchange appended to chat_history, or the exception is printed (the only
\* node that raises in this loop is route, with KeyError 'workflow_path')
run_interactive_finish ==
    /\ pc \in {"END", "RAISED"}
    /\ IF pc = "RAISED"
       THEN /\ console' = Append(console, "Error: 'workflow_path'")
            /\ UNCHANGED chat_history
       ELSE /\ console' = Append(console, "Assistant: " \o final_response)
            /\ chat_history' = chat_history
                                 \o << [role |-> "user", content |-> user_query],
                                       [role |-> "assistant", content |-> final_response] >>
    /\ pc' = "input"
    /\ UNCHANGED << state_vars, visited, executor_calls, llm_calls, arg, ret, absent_fields,
                    executor_vars, twin >>

\* route is the only node a run of this loop reaches
NextInteractive ==
    \/ run_interactive_input
    \/ route_query
    \/ run_interactive_finish

SpecInteractive == InitInteractive /\ [][NextInteractive]_vars

\* C20: every run, each one the interactive loop starts included, begins from
\* a state in which every AgentState field is present with its initial value
\* (domain, error_message, error_category, final_response empty,
\* retrieved_tools and workflow_path empty sequences, execution_attempts 0),
\* and the Route stage does not fail.
C20_RunsStartFromFreshState ==
    /\ (pc = "route" /\ visited = << >>)
       => /\ absent_fields = {}
          /\ domain = "" /\ error_message = "" /\ error_category = ""
          /\ final_response = ""
          /\ retrieved_tools = << >> /\ workflow_path = << >>
          /\ execution_attempts = 0
    /\ pc = "RAISED" => LastNode # "route"

\* ------------------------------------------------------------------------
\* Attempts, decisions and the tool call (src/graph/lang_graph.py 120-199,
\* src/agent/agent.py 21-79)
\* ------------------------------------------------------------------------

CountOf(seq, x) == Cardinality({i \in DOMAIN seq : seq[i] = x})

\* C22: execution_attempts is 0 until CallTool first runs, grows by one with
\* each CallTool execution and with nothing else, equals the number of
\* executor invocations started in the run, and never exceeds 2.
C22_AttemptsCountExecutorInvocations ==
    /\ ~Ran("call_tool") => execution_attempts = 0
    /\ execution_attempts = CountOf(visited, "call_tool")
    /\ execution_attempts = Len(executor_calls)
    /\ execution_attempts <= 2

\* the decision asks for a tool that retrieval did not return
UnknownToolDecision ==
    /\ Ran("decide")
    /\ Get(agent_decision, "action", "") = "use_tool"
    /\ \A i \in DOMAIN retrieved_tools :
         \/ "tool_id" \notin DOMAIN agent_decision
         \/ retrieved_tools[i].tool_id # agent_decision.tool_id

\* C23: when a UseTool decision names no retrieved tool (an unknown tool_id,
\* no tool_id, or nothing retrieved), selected_tool is the empty dict, no node
\* raises, and the run goes through CallTool to HandleError with a failed
\* tool_result and with error_message and error_category set.
C23_UnknownToolEndsInHandleError ==
    UnknownToolDecision
    => /\ selected_tool = EmptyDict
       /\ pc \in {"call_tool", "handle_error", "END"}
       /\ pc # "call_tool"
          => /\ Get(tool_result, "success", TRUE) = FALSE
             /\ error_message # ""
             /\ error_category \in Taxonomy
       /\ pc = "END"
          => visited = <<"route", "retrieve", "decide", "call_tool", "handle_error">>

C23_Witness ==
    /\ UnknownToolDecision
    /\ pc = "END"
    /\ "tool_id" \in DOMAIN agent_decision
    /\ agent_decision.tool_id = "delete_user"
    /\ retrieved_tools # << >>

C23_WitnessNothingRetrieved ==
    /\ UnknownToolDecision
    /\ pc = "END"
    /\ retrieved_tools = << >>
    /\ "tool_id" \in DOMAIN agent_decision

C23_WitnessNoToolId ==
    /\ UnknownToolDecision
    /\ pc = "END"
    /\ "tool_id" \notin DOMAIN agent_decision

UseToolVariant(d) ==
    /\ Get(d, "action", "") = "use_tool"
    /\ "tool_id" \in DOMAIN d
    /\ "parameters" \in DOMAIN d
    /\ IsParamDict(d.parameters)

RespondVariant(d) ==
    /\ Get(d, "action", "") = "respond"
    /\ "response" \in DOMAIN d

\* C24: once Decide has completed, agent_decision is a UseTool decision (a
\* tool_id and a parameter map) or a Respond decision (a text), whatever the
\* model returned.
C24_DecisionIsUseToolOrRespond ==
    (Ran("decide") /\ ~(pc = "RAISED" /\ LastNode = "decide"))
    => UseToolVariant(agent_decision) \/ RespondVariant(agent_decision)

\* the model outputs that json.loads rejects, and what decide_action makes of them
UnparseableOutputs == {o \in AgentOutputs : "text" \in DOMAIN o}
UnparseableDecisions == {decide_action(o) : o \in UnparseableOutputs}

\* C25: a decision output that is not JSON becomes a Respond decision
\* carrying the raw text; the run then skips CallTool and HandleError and
\* ends with final_response equal to that text.
C25_UnparseableOutputBecomesRespond ==
    /\ \A o \in UnparseableOutputs :
         decide_action(o) = [action |-> "respond", response |-> o.text]
    /\ (Ran("decide") /\ agent_decision \in UnparseableDecisions)
       => /\ ~Ran("call_tool") /\ ~Ran("handle_error")
          /\ executor_calls = << >>
          /\ pc \in {"synthesize", "END"}
          /\ pc = "END"
             => /\ \E o \in UnparseableOutputs : final_response = o.text
                /\ final_response = agent_decision.response
                /\ workflow_path[Len(workflow_path)] = "synthesize:direct"

C25_Witness ==
    /\ pc = "END"
    /\ agent_decision \in UnparseableDecisions
    /\ final_response = "I am not sure which tool to use."
    /\ workflow_path[Len(workflow_path)] = "synthesize:direct"

\* C28: whenever HandleError is entered, error_message is non-empty and
\* error_category is one of the taxonomy's categories.
C28_HandleErrorHasMessageAndCategory ==
    (pc = "handle_error" \/ Ran("handle_error"))
    => /\ error_message # ""
       /\ error_category \in Taxonomy

C28_Witness ==
    /\ pc = "handle_error"
    /\ error_category = "NOT_FOUND"
    /\ error_message # ""

\* C29: after CallTool the next node is Synthesize exactly when
\* tool_result.success is true; Synthesize is never reached with a failed
\* result and HandleError never with a successful one.
C29_SynthesizeIffSuccess ==
    /\ (Ran("call_tool") /\ LastNode = "call_tool")
       => /\ pc \in {"synthesize", "handle_error"}
          /\ pc = "synthesize" <=> IsTrue(tool_result)
    /\ (Ran("call_tool") /\ (pc = "synthesize" \/ Ran("synthesize")))
       => IsTrue(tool_result)
    /\ (pc = "handle_error" \/ Ran("handle_error")) => ~IsTrue(tool_result)

C29_Witness ==
    /\ LastNode = "call_tool"
    /\ pc = "synthesize"
    /\ IsTrue(tool_result)

C29_WitnessFailed ==
    /\ LastNode = "call_tool"
    /\ pc = "handle_error"
    /\ Get(tool_result, "status_code", 0) = 503

\* the tag prefix each node writes to workflow_path
TagPrefix ==
    [route |-> "route:", retrieve |-> "retrieve:", decide |-> "decide:",
     call_tool |-> "execute:", synthesize |-> "synthesize:",
     handle_error |-> "error:", rag |-> "rag:", system_search |-> "system_search:"]

StartsWith(s, prefix) ==
    Len(s) >= Len(prefix) /\ SubSeq(s, 1, Len(prefix)) = prefix

\* one completed node execution: exactly one tag of that node is appended
AppendsOneTag ==
    /\ Len(workflow_path') = Len(workflow_path) + 1
    /\ SubSeq(workflow_path', 1, Len(workflow_path)) = workflow_path
    /\ StartsWith(workflow_path'[Len(workflow_path')],
                  TagPrefix[visited'[Len(visited')]])

\* C30: workflow_path is append-only and complete: every node execution that
\* completes appends exactly one tag of its own and leaves the earlier
\* entries as they were, nothing else changes the path, and at End its
\* length is the number of node executions.
C30_WorkflowPathAppendOnlyComplete ==
    /\ [](pc = "END" => Len(workflow_path) = Len(visited))
    /\ [][IF visited' # visited /\ pc' # "RAISED"
          THEN AppendsOneTag
          ELSE workflow_path' = workflow_path]_vars

C30_Witness ==
    /\ pc = "END"
    /\ Len(visited) = 5
    /\ workflow_path[4] = "execute:exception"
    /\ workflow_path[5] = "error:EXECUTION_ERROR"

\* ------------------------------------------------------------------------
\* The tool definition handed to the executor (src/indexer/tool_indexer.py
\* 30-110, src/graph/lang_graph.py 142-178)
\* ------------------------------------------------------------------------

\* the parsed tool a retrieved definition stands for
ParsedToolOf(tool_definition) ==
    CHOOSE tool \in ParsedTools : tool.id = tool_definition.tool_id

\* C26: the tool definition CallTool passes to the executor, when the tool was
\* found among the retrieved tools, carries the indexed tool's headers,
\* declared parameters and body_type besides id, name, domain, method and url.
C26_SelectedToolCarriesFullDefinition ==
    \A i \in DOMAIN executor_calls :
        LET td == executor_calls[i].tool_definition
        IN  td # EmptyDict
            => /\ td.tool_id = ParsedToolOf(td).id
               /\ td.name = ParsedToolOf(td).name
               /\ td.domain = ParsedToolOf(td).domain
               /\ td.method = ParsedToolOf(td).method
               /\ td.url = ParsedToolOf(td).url
               /\ "headers" \in DOMAIN td /\ td.headers = ParsedToolOf(td).headers
               /\ "parameters" \in DOMAIN td
               /\ td.parameters = ParsedToolOf(td).parameters
               /\ "body_type" \in DOMAIN td
               /\ td.body_type = ParsedToolOf(td).body_type

\* ------------------------------------------------------------------------
\* One executor shared by several callers (src/tools/api_executor.py 13-87,
\* src/graph/lang_graph.py 56-61).  The request components of execute are
\* locals of the call; the session is the only object the calls share.
\* ------------------------------------------------------------------------

\* the most requests one behaviour sends before no further call starts
MaxSent == 3

\* the execute calls the callers make
SharedCalls ==
    { [tool_id |-> "get_user",
       tool_definition |-> [tool_id |-> "get_user", name |-> "Get User",
                            domain |-> "USER_MANAGEMENT", method |-> "GET",
                            url |-> "https://api.example.com/users/{id}"],
       parameters |-> [items |-> << [key |-> "id", value |-> [str |-> "7"]],
                                    [key |-> "auth_token", value |-> [str |-> "alice"]] >>]],
      [tool_id |-> "create_invoice",
       tool_definition |-> [method |-> "POST", url |-> "https://api.example.com/invoices",
                            headers |-> << [key |-> "Authorization",
                                            value |-> "Bearer {token}"],
                                           [key |-> "X-Tenant", value |-> "acme"] >>,
                            parameters |-> << [name |-> "amount", type |-> "body"] >>,
                            body_type |-> "raw"],
       parameters |-> [items |-> << [key |-> "token", value |-> [str |-> "bob"]],
                                    [key |-> "amount", value |-> [int |-> 5]] >>]],
      [tool_id |-> "list_invoices",
       tool_definition |-> [method |-> "GET", url |-> "https://api.example.com/invoices",
                            parameters |-> << [name |-> "page", type |-> "query"] >>],
       parameters |-> [items |-> << [key |-> "page", value |-> [int |-> 5]] >>]],
      [tool_id |-> "delete_user", tool_definition |-> EmptyDict,
       parameters |-> [items |-> << >>]] }

SharedHttpOutcomes ==
    { [kind |-> "response", status_code |-> 200, body |-> [json |-> [id |-> 42]]],
      [kind |-> "timeout"] }

RECURSIVE MergeItems(_, _, _)
\* dict.update: the items of `over`, from item i on, set on `base`
MergeItems(base, over, i) ==
    IF i > Len(over) THEN base
    ELSE MergeItems(DictSet(base, over[i].key, over[i].value), over, i + 1)

\* session.request(method, **request_kwargs): the request that leaves the
\* process carries the per-request headers laid over the session's own
OutgoingRequest(session_, kwargs) ==
    [kwargs EXCEPT !.headers = [items |-> MergeItems(session_.headers, kwargs.headers.items, 1)]]

\* variant: the session keeps the headers of every request it sent
session_after_request_keeps_headers(session_, kwargs) ==
    [session_ EXCEPT !.headers = MergeItems(session_.headers, kwargs.headers.items, 1)]

\* the session after session.request: execute passes the headers with the
\* request and never writes to the session
session_after_request(session_, kwargs) ==
    session_

\* a caller enters executor.execute with its own arguments
execute_begin(c) ==
    /\ in_flight[c].stage \in {"idle", "returned"}
    /\ Len(sent) < MaxSent
    /\ \E call \in SharedCalls :
         in_flight' = [in_flight EXCEPT ![c] = [stage |-> "called", call |-> call]]
    /\ UNCHANGED << session, sent >>

\* lines 37-62: method, url, headers and body or query, in locals of the call;
\* an exception there is answered by the last except clause
execute_build(c) ==
    /\ in_flight[c].stage = "called"
    /\ LET call == in_flight[c].call
       IN  in_flight' =
             [in_flight EXCEPT ![c] =
                IF BuildException(call.parameters, call.tool_definition) # ""
                THEN [stage |-> "returned", call |-> call,
                      result |-> execute(call.tool_id, call.parameters,
                                         call.tool_definition, NotCalled)]
                ELSE [stage |-> "built", call |-> call,
                      request_kwargs |-> request_kwargs(call.parameters,
                                                        call.tool_definition)]]
    /\ UNCHANGED << session, sent >>

\* line 65, the call of session.request
execute_send(c) ==
    /\ in_flight[c].stage = "built"
    /\ sent' = Append(sent, [caller |-> c, call |-> in_flight[c].call,
                             request |-> OutgoingRequest(session,
                                                         in_flight[c].request_kwargs)])
    /\ session' = session_after_request(session, in_flight[c].request_kwargs)
    /\ in_flight' = [in_flight EXCEPT ![c].stage = "awaiting"]

\* lines 65-87: session.request returns or raises, and execute returns its result
execute_return(c) ==
    /\ in_flight[c].stage = "awaiting"
    /\ \E http \in SharedHttpOutcomes :
         LET call == in_flight[c].call
         IN  in_flight' =
               [in_flight EXCEPT ![c] =
                  [stage |-> "returned", call |-> call,
                   result |-> execute(call.tool_id, call.parameters,
                                      call.tool_definition, http)]]
    /\ UNCHANGED << session, sent >>

InitShared == Idle("shared")

NextShared ==
    \E c \in Callers :
      /\ \/ execute_begin(c)
         \/ execute_build(c)
         \/ execute_send(c)
         \/ execute_return(c)
      /\ UNCHANGED << pc, state_vars, visited, executor_calls, llm_calls, arg, ret,
                      absent_fields, chat_history, console, twin >>

SpecShared == InitShared /\ [][NextShared]_vars

HeaderItems(request) ==
    {request.headers.items[i] : i \in DOMAIN request.headers.items}

C27_WitnessSuccessive ==
    /\ Len(sent) = 3
    /\ sent[1].caller = sent[3].caller
    /\ sent[2].caller # sent[1].caller
    /\ [key |-> "Authorization", value |-> "Bearer bob"] \in HeaderItems(sent[2].request)
    /\ \A h \in HeaderItems(sent[3].request) : h.key # "Authorization"

\* ------------------------------------------------------------------------
\* Two runs of the workflow side by side (src/graph/lang_graph.py 64-516).
\* Each node is written as a function of the state dict it receives and of
\* the result of the external capability it calls, so that the same results
\* can be given to two runs.
\* ------------------------------------------------------------------------

\* the state dict of the run in progress
StateDict ==
    [user_query |-> user_query, domain |-> domain, retrieved_tools |-> retrieved_tools,
     retrieval_count |-> retrieval_count, agent_decision |-> agent_decision,
     selected_tool |-> selected_tool, tool_result |-> tool_result,
     execution_attempts |-> execution_attempts, error_message |-> error_message,
     error_category |-> error_category, final_response |-> final_response,
     workflow_path |-> workflow_path]

\* initialize_state, as a dict with the given workflow_path
StateDictFor(query, trail) ==
    [user_query |-> query, domain |-> "", retrieved_tools |-> << >>,
     retrieval_count |-> 0, agent_decision |-> EmptyDict, selected_tool |-> EmptyDict,
     tool_result |-> EmptyDict, execution_attempts |-> 0, error_message |-> "",
     error_category |-> "", final_response |-> "", workflow_path |-> trail]

NoOutcome == [kind |-> "none"]

\* the results the external capability of a node can give in state s
NodeOutcomes(node, s) ==
    CASE node = "route" -> RouterOutputs
      [] node = "retrieve" ->
            {[raised |-> "indexer"]} \cup {[tools |-> ts] : ts \in RetrievalResults(s.domain)}
      [] node = "decide" -> AgentOutputs
      [] node = "call_tool" ->
            IF "tool_id" \notin DOMAIN s.agent_decision THEN {NoOutcome}
            ELSE HttpOutcomesFor(Get(s.agent_decision, "parameters", [items |-> << >>]),
                                 s.selected_tool)
      [] node = "synthesize" ->
            IF Get(s.agent_decision, "action", "respond") = "respond" THEN {NoOutcome}
            ELSE SynthesisOutputs
      [] node = "handle_error" -> ErrorLLMOutputs
      [] node = "system_search" ->
            IF AnyIn({"available tools", "what can you do", "capabilities"},
                     Lower(s.user_query))
            THEN {[tools |-> ts] : ts \in CatalogListings}
            ELSE {NoOutcome}
      [] OTHER -> {NoOutcome}

Raised == [raised |-> TRUE]

\* the body of a node: the state dict it returns, or Raised
NodeStep(node, s, outcome) ==
    CASE node = "route" ->
            LET d == route(outcome)
            IN  [s EXCEPT !.domain = d, !.workflow_path = Append(@, "route:" \o d)]
      [] node = "retrieve" ->
            IF "raised" \in DOMAIN outcome THEN Raised
            ELSE [s EXCEPT !.retrieved_tools = outcome.tools,
                           !.retrieval_count = Len(outcome.tools),
                           !.workflow_path =
                              Append(@, "retrieve:" \o IntToStr(Len(outcome.tools)) \o "_tools")]
      [] node = "decide" ->
            IF "raised" \in DOMAIN outcome \/ ~IsDict(decide_action(outcome)) THEN Raised
            ELSE LET decision == decide_action(outcome)
                 IN  [s EXCEPT !.agent_decision = decision,
                               !.workflow_path =
                                  Append(@, "decide:" \o Get(decision, "action", "unknown")),
                               !.selected_tool =
                                  IF Get(decision, "action", "") = "use_tool"
                                  THEN FindTool(s.retrieved_tools, decision)
                                  ELSE @]
      [] node = "call_tool" ->
            IF "tool_id" \notin DOMAIN s.agent_decision
            THEN [s EXCEPT !.execution_attempts = @ + 1,
                           !.error_message = "'tool_id'",
                           !.error_category = "EXECUTION_ERROR",
                           !.tool_result = [success |-> FALSE, error |-> "'tool_id'"],
                           !.workflow_path = Append(@, "execute:exception")]
            ELSE LET result == execute(s.agent_decision.tool_id,
                                       Get(s.agent_decision, "parameters", [items |-> << >>]),
                                       s.selected_tool, outcome)
                     failed_message == Get(result, "error", "Tool execution failed")
                 IN  IF IsTrue(result)
                     THEN [s EXCEPT !.execution_attempts = @ + 1,
                                    !.tool_result = result,
                                    !.workflow_path =
                                       Append(@, "execute:"
                                                 \o IntToStr(Get(result, "status_code", 0)))]
                     ELSE [s EXCEPT !.execution_attempts = @ + 1,
                                    !.tool_result = result,
                                    !.workflow_path =
                                       Append(@, "execute:"
                                                 \o IntToStr(Get(result, "status_code", 0))),
                                    !.error_message = failed_message,
                                    !.error_category = categorize_error(failed_message)]
      [] node = "synthesize" ->
            IF "action" \notin DOMAIN s.agent_decision THEN Raised
            ELSE IF s.agent_decision.action = "respond"
            THEN IF "response" \notin DOMAIN s.agent_decision THEN Raised
                 ELSE [s EXCEPT !.final_response = s.agent_decision.response,
                                !.workflow_path = Append(@, "synthesize:direct")]
            ELSE IF "raised" \in DOMAIN outcome THEN Raised
            ELSE [s EXCEPT !.final_response = outcome.content,
                           !.workflow_path = Append(@, "synthesize:from_tool")]
      [] node = "handle_error" ->
            [s EXCEPT !.final_response = generate_error_message(s.error_message, outcome),
                      !.workflow_path = Append(@, "error:" \o s.error_category)]
      [] node = "rag" ->
            [s EXCEPT !.final_response =
                         "I can help you search our knowledge base. "
                         \o "However, the RAG system is not yet fully configured. "
                         \o "Please provide your question and I'll do my best to assist.",
                      !.workflow_path = Append(@, "rag:placeholder")]
      [] node = "system_search" ->
            LET query_lower == Lower(s.user_query)
            IN  IF AnyIn({"available tools", "what can you do", "capabilities"}, query_lower)
                THEN [s EXCEPT !.final_response = tool_summary(outcome.tools),
                               !.workflow_path = Append(@, "system_search:list_tools")]
                ELSE IF AnyIn({"status", "request", "history"}, query_lower)
                THEN [s EXCEPT !.final_response =
                                  "To check request status, I'll need more details. "
                                  \o "Could you provide a request ID or describe which request you're asking about?",
                               !.workflow_path = Append(@, "system_search:status_query")]
                ELSE [s EXCEPT !.final_response =
                                  "I can help you search for available tools or check request status. What would you like to know?",
                               !.workflow_path = Append(@, "system_search:general")]

\* variant: the edge after decide gives up on tools once the trail shows two
\* tool decisions
EdgeFrom_counts_trail(node, s) ==
    CASE node = "route" -> route_edges[should_use_special_handler(s.domain)]
      [] node = "retrieve" -> "decide"
      [] node = "decide" ->
            IF CountOf(s.workflow_path, "decide:use_tool") > 1 THEN "synthesize"
            ELSE decide_edges[should_call_tool(s.agent_decision)]
      [] node = "call_tool" ->
            call_tool_edges[check_tool_result(s.error_message, s.tool_result)]
      [] OTHER -> "END"

\* the edges of create_workflow: each conditional edge function receives the
\* state dict the node returned
EdgeFrom(node, s) ==
    CASE node = "route" -> route_edges[should_use_special_handler(s.domain)]
      [] node = "retrieve" -> "decide"
      [] node = "decide" -> decide_edges[should_call_tool(s.agent_decision)]
      [] node = "call_tool" ->
            call_tool_edges[check_tool_result(s.error_message, s.tool_result)]
      [] OTHER -> "END"

\* one node of a run and the edge after it
RunStep(run, outcome) ==
    LET after == NodeStep(run.pc, run.state, outcome)
    IN  IF after = Raised
        THEN [run EXCEPT !.pc = "RAISED", !.visited = Append(@, run.pc)]
        ELSE [pc |-> EdgeFrom(run.pc, after), visited |-> Append(run.visited, run.pc),
              state |-> after]

\* the run in progress, as one value
ThisRun == [pc |-> pc, visited |-> visited, state |-> StateDict]

\* every step of the workflow's nodes is a step of RunStep
RunStepMatchesNodes ==
    [][\E outcome \in NodeOutcomes(pc, StateDict) : ThisRun' = RunStep(ThisRun, outcome)]_vars

\* the contents workflow_path can have when a run starts
Trails ==
    { << >>,
      << "route:INVOICING", "retrieve:1_tools", "decide:use_tool" >>,
      << "decide:use_tool", "decide:use_tool", "execute:exception", "error:EXECUTION_ERROR" >> }

InitTwin == Idle("twin")

\* two runs start from states that differ only in workflow_path
twin_start ==
    /\ twin.stage = "idle"
    /\ \E query \in UserQueries, trail_a \in Trails, trail_b \in Trails :
         /\ trail_a # trail_b
         /\ twin' = [stage |-> "running",
                     a |-> [pc |-> "route", visited |-> << >>,
                            state |-> StateDictFor(query, trail_a)],
                     b |-> [pc |-> "route", visited |-> << >>,
                            state |-> StateDictFor(query, trail_b)]]
    /\ UNCHANGED << pc, state_vars, visited, executor_calls, llm_calls, arg, ret,
                    absent_fields, chat_history, console, executor_vars >>

\* both runs execute their next node and receive the same external result
twin_step ==
    /\ twin.stage = "running"
    /\ twin.a.pc \notin {"END", "RAISED"}
    /\ twin.b.pc = twin.a.pc
    /\ \E outcome \in NodeOutcomes(twin.a.pc, twin.a.state) :
         twin' = [twin EXCEPT !.a = RunStep(twin.a, outcome),
                              !.b = RunStep(twin.b, outcome)]
    /\ UNCHANGED << pc, state_vars, visited, executor_calls, llm_calls, arg, ret,
                    absent_fields, chat_history, console, executor_vars >>

NextTwin == twin_start \/ twin_step

SpecTwin == InitTwin /\ [][NextTwin]_vars

\* C21: workflow_path never influences control flow: two runs that start
\* from states differing only in workflow_path and receive the same external
\* results execute the same nodes in the same order and have the same
\* domain, error_category and final_response, at End in particular.
C21_WorkflowPathDoesNotInfluenceRun ==
    twin.stage = "running"
    => /\ twin.a.pc = twin.b.pc
       /\ twin.a.visited = twin.b.visited
       /\ twin.a.state.domain = twin.b.state.domain
       /\ twin.a.state.error_category = twin.b.state.error_category
       /\ twin.a.state.final_response = twin.b.state.final_response

C21_Witness ==
    /\ twin.stage = "running"
    /\ twin.a.pc = "END" /\ twin.b.pc = "END"
    /\ twin.a.visited = <<"route", "retrieve", "decide", "call_tool", "handle_error">>
    /\ twin.a.state.workflow_path # twin.b.state.workflow_path
    /\ Len(twin.b.state.workflow_path) = 9
    /\ twin.a.state.final_response # ""

C21_WitnessSynthesize ==
    /\ twin.stage = "running"
    /\ twin.a.pc = "END" /\ twin.b.pc = "END"
    /\ twin.a.visited = <<"route", "retrieve", "decide", "call_tool", "synthesize">>
    /\ Len(twin.a.state.workflow_path) = 8
    /\ Len(twin.b.state.workflow_path) = 5

\* ------------------------------------------------------------------------
\* Entry to synthesize, the error text, and the category of a silent failure
\* (src/graph/lang_graph.py 155-267, src/utils/error_handler.py 18-110)
\* ------------------------------------------------------------------------

\* C31: Synthesize is entered only from Decide with a Respond decision or
\* from CallTool after a successful execution; the tag synthesize:from_tool
\* never appears without an earlier execute tag, and the synthesis capability
\* is never called with an empty tool_result.
C31_SynthesizeOnlyAfterRespondOrSuccess ==
    /\ (pc = "synthesize" \/ Ran("synthesize"))
       => \/ /\ ~Ran("call_tool")
             /\ Get(agent_decision, "action", "") = "respond"
             /\ "response" \in DOMAIN agent_decision
          \/ /\ Ran("call_tool")
             /\ IsTrue(tool_result)
    /\ \A i \in DOMAIN workflow_path :
         workflow_path[i] = "synthesize:from_tool"
         => \E j \in 1..(i - 1) : StartsWith(workflow_path[j], "execute:")
    /\ (\E i \in DOMAIN llm_calls : llm_calls[i] = "synthesize_response")
       => tool_result # EmptyDict

\* the texts the error messenger can produce
MessengerTexts ==
    UNION {CannedTexts(category) : category \in DOMAIN ERROR_TEMPLATES}
    \cup {llm.content : llm \in {o \in ErrorLLMOutputs : "content" \in DOMAIN o}}
    \cup {"I encountered an issue while processing your request. Please try again or rephrase your query."}

\* C33: in every run that goes through HandleError the error messenger does
\* not raise, and final_response is a text it produced (a template sentence,
\* one of the two INVALID_INPUT sentences, or generated text), never the raw
\* error_message, a status code or an exception text.
C33_ErrorResponseIsMessengerText ==
    Ran("handle_error")
    => /\ pc = "END"
       /\ LastNode = "handle_error"
       /\ final_response \in MessengerTexts
       /\ final_response # error_message
       /\ final_response # Get(tool_result, "error", "")
       /\ "status_code" \in DOMAIN tool_result
          => final_response # IntToStr(tool_result.status_code)

C33_Witness ==
    /\ Ran("handle_error")
    /\ error_category = "EXECUTION_ERROR"
    /\ error_message = "'tool_id'"
    /\ final_response = ERROR_TEMPLATES["UNKNOWN"]

C33_WitnessInvalidInput ==
    /\ Ran("handle_error")
    /\ error_category = "INVALID_INPUT"
    /\ final_response = ERROR_TEMPLATES["INVALID_INPUT"]

\* the category that goes with the status of a failed response
StatusCategory ==
    [ s \in {400, 401, 403, 404, 429, 500, 503} |->
        CASE s = 400 -> "INVALID_INPUT"
          [] s = 401 -> "AUTH"
          [] s = 403 -> "FORBIDDEN"
          [] s = 404 -> "NOT_FOUND"
          [] s = 429 -> "RATE_LIMIT"
          [] s = 500 -> "SERVER_ERROR"
          [] s = 503 -> "SERVER_ERROR" ]

\* the attempt failed with an HTTP response whose body has no error or message
SilentFailedResponse ==
    /\ Ran("call_tool")
    /\ ~IsTrue(tool_result)
    /\ "data" \in DOMAIN tool_result
    /\ "error" \notin DOMAIN tool_result.data
    /\ "message" \notin DOMAIN tool_result.data

\* C35: after a failed execution whose response body contributes no error or
\* message text, error_category agrees with the status: 400 INVALID_INPUT,
\* 401 AUTH, 403 FORBIDDEN, 404 NOT_FOUND, 429 RATE_LIMIT, 500 and 503
\* SERVER_ERROR; an executor timeout (status 408) gives TIMEOUT.
C35_SilentFailureCategoryFollowsStatus ==
    /\ (SilentFailedResponse /\ tool_result.status_code \in DOMAIN StatusCategory)
       => error_category = StatusCategory[tool_result.status_code]
    /\ (Ran("call_tool") /\ tool_result = TimeoutResult) => error_category = "TIMEOUT"

C35_Witness ==
    /\ SilentFailedResponse
    /\ tool_result.status_code = 503
    /\ error_category = "SERVER_ERROR"
    /\ error_message = "Service Unavailable"

C35_WitnessTimeout ==
    /\ Ran("call_tool")
    /\ tool_result = TimeoutResult
    /\ error_category = "TIMEOUT"

\* ------------------------------------------------------------------------
\* Which parts of a request the method and the body type select
\* (src/tools/api_executor.py 36-65, 119-171)
\* ------------------------------------------------------------------------

\* C32: a request carries a body only for POST, PUT and PATCH and query
\* parameters only for GET; for any other method neither is sent even when
\* the tool declares them, and the incoming parameters reach the request
\* only through the URL placeholders and the headers.
C32_BodyAndQueryByMethod ==
    RequestSent
    => /\ ({"json", "data"} \cap DOMAIN ret.request # {})
          <=> ret.request.method \in {"POST", "PUT", "PATCH"}
       /\ "params" \in DOMAIN ret.request => ret.request.method = "GET"
       /\ ret.request.method = Upper(arg.tool_definition.method)
       /\ ret.request.method \notin {"POST", "PUT", "PATCH", "GET"}
          => /\ DOMAIN ret.request = {"method", "url", "headers", "timeout"}
             /\ ret.request.url = _build_url(arg.tool_definition.url, arg.parameters)
             /\ ret.request.headers =
                   _build_headers(Get(arg.tool_definition, "headers", << >>),
                                  arg.parameters)

\* a DELETE whose tool declares a query and a path parameter, both supplied
C32_Witness ==
    /\ RequestSent
    /\ ret.request.method = "DELETE"
    /\ DeclaredNames(arg.tool_definition, {"query"}) = {"amount"}
    /\ {"amount", "id"} \subseteq ParamKeys(arg.parameters)
    /\ ret.request.url = "https://api.example.com/items/7"
    /\ DOMAIN ret.request = {"method", "url", "headers", "timeout"}

C32_WitnessBodyDeclared ==
    /\ RequestSent
    /\ ret.request.method = "DELETE"
    /\ DeclaredNames(arg.tool_definition, {"body"}) = {"amount"}
    /\ "amount" \in ParamKeys(arg.parameters)

\* the parameter's value was put into a placeholder of the URL template
UrlPlaceholderOf(key) ==
    \E pattern \in {"{{" \o key \o "}}", "{" \o key \o "}", ":" \o key} :
        /\ Contains(arg.tool_definition.url, pattern)
        /\ ~Contains(ret.request.url, pattern)

\* C37: under the body fallback, a parameter that was substituted into a URL
\* placeholder is still part of the request body unless the tool declares it
\* with type path or query.
C37_UrlParametersStayInFallbackBody ==
    (BodyMethod /\ ~DeclaresBody)
    => \A i \in DOMAIN arg.parameters.items :
         LET key   == arg.parameters.items[i].key
             value == arg.parameters.items[i].value
         IN  UrlPlaceholderOf(key)
             => (<< key, value >> \in SentBody
                 <=> key \notin DeclaredNames(arg.tool_definition, {"path", "query"}))

\* id fills the placeholder and, not being declared, is sent in the body too
C37_Witness ==
    /\ BodyMethod /\ ~DeclaresBody
    /\ UrlPlaceholderOf("id")
    /\ ret.request.url = "https://api.example.com/items/7"
    /\ "id" \notin DeclaredNames(arg.tool_definition, {"path", "query"})
    /\ << "id", [str |-> "7"] >> \in SentBody

C37_WitnessDeclaredPath ==
    /\ BodyMethod /\ ~DeclaresBody
    /\ UrlPlaceholderOf("id")
    /\ "id" \in DeclaredNames(arg.tool_definition, {"path"})
    /\ << "id", [str |-> "7"] >> \notin SentBody

\* the tool definition declares a Content-Type header that takes effect
DeclaresContentType ==
    \E i \in DOMAIN Get(arg.tool_definition, "headers", << >>) :
       /\ Get(Get(arg.tool_definition, "headers", << >>)[i], "key", "") = "Content-Type"
       /\ Get(Get(arg.tool_definition, "headers", << >>)[i], "value", "") # ""

\* C38: the Content-Type header of a request agrees with the encoding of its
\* body unless a tool-declared header sets it: a JSON payload goes with
\* application/json, form-encoded fields do not.
C38_ContentTypeMatchesBodyEncoding ==
    (BodyMethod /\ ~DeclaresContentType)
    => /\ "json" \in DOMAIN ret.request
          => SentHeader("Content-Type") = "application/json"
       /\ ("data" \in DOMAIN ret.request /\ ret.request.data.items # << >>)
          => SentHeader("Content-Type") # "application/json"

\* ------------------------------------------------------------------------
\* The category of two failures of the same kind (src/tools/api_executor.py
\* 70-87, 210-239; src/utils/error_handler.py 84-110; src/graph/lang_graph.py
\* 186-190, 395-410)
\* ------------------------------------------------------------------------

\* the tool both attempts call
PairToolDefinition ==
    [tool_id |-> "get_user", name |-> "Get User", domain |-> "USER_MANAGEMENT",
     method |-> "GET", url |-> "https://api.example.com/users/{id}"]

PairParameters == [items |-> << [key |-> "id", value |-> [str |-> "7"]] >>]

\* two outcomes of the HTTP call that fail in the same way: responses with the
\* same failing status, or two exceptions of the same class
SameFailure(first, second) ==
    /\ first.kind = second.kind
    /\ first.kind = "response"
       => first.status_code = second.status_code /\ first.status_code >= 400

\* what call_tool writes after a failed attempt, and what should_retry_tool
\* would answer for it
FailedAttempt(http) ==
    LET result == execute("get_user", PairParameters, PairToolDefinition, http)
        failed_message == Get(result, "error", "Tool execution failed")
    IN  [status_code |-> result.status_code,
         error_message |-> failed_message,
         error_category |-> categorize_error(failed_message),
         retry |-> should_retry_tool(1, categorize_error(failed_message))]

InitFailurePair == Idle("call_tool_pair")

call_tool_pair_call ==
    /\ pc = "call_tool_pair"
    /\ \E first \in HttpOutcomes, second \in HttpOutcomes :
         /\ SameFailure(first, second)
         /\ arg' = [first |-> first, second |-> second]
         /\ ret' = [first |-> FailedAttempt(first), second |-> FailedAttempt(second)]
    /\ pc' = "return"
    /\ UNCHANGED << state_vars, visited, executor_calls, llm_calls, session_vars >>

NextFailurePair == call_tool_pair_call

SpecFailurePair == InitFailurePair /\ [][NextFailurePair]_vars

\* C36: the error_category written after a failed attempt depends on the kind
\* of failure and the status_code alone: two failed results with the same
\* status_code get the same category whatever text the response body or the
\* exception contributes, and so the same answer to whether the failure is
\* retryable.
C36_CategoryDependsOnStatusOnly ==
    pc = "return"
    => /\ ret.first.status_code = ret.second.status_code
       /\ ret.first.error_category = ret.second.error_category
       /\ ret.first.retry = ret.second.retry

\* ------------------------------------------------------------------------
\* Tool identifiers (src/tools/tool_parser.py 58-131)
\* ------------------------------------------------------------------------

\* ToolParser._generate_tool_id
_generate_tool_id(name) ==
    Replace(Replace(Lower(name), " ", "_"), "-", "_")

\* ToolParser._infer_domain
_infer_domain(name, collection) ==
    LET text == Lower(name \o " " \o collection)
    IN  IF AnyIn({"invoice", "bill", "billing"}, text) THEN "INVOICING"
        ELSE IF AnyIn({"payment", "pay", "charge", "refund"}, text) THEN "PAYMENTS"
        ELSE IF AnyIn({"report", "analytics", "export"}, text) THEN "REPORTING"
        ELSE IF AnyIn({"dispute", "chargeback", "claim"}, text) THEN "DISPUTES"
        ELSE IF AnyIn({"user", "account", "profile"}, text) THEN "USER_MANAGEMENT"
        ELSE "GENERAL"

\* ToolParser._extract_url: the url of a request is a string or {"raw": ...}
_extract_url(request) ==
    LET url == Get(request, "url", EmptyDict)
    IN  IF "str" \in DOMAIN url THEN url.str
        ELSE IF IsDict(url) THEN Get(url, "raw", "")
        ELSE ""

\* ToolParser._extract_headers
_extract_headers(request) ==
    [i \in DOMAIN Get(request, "header", << >>) |->
        [key |-> Get(request.header[i], "key", [null |-> 0]),
         value |-> Get(request.header[i], "value", [null |-> 0])]]

\* ToolParser._extract_parameters
_extract_parameters(request) ==
    LET url      == Get(request, "url", EmptyDict)
        query    == IF IsDict(url) THEN Get(url, "query", << >>) ELSE << >>
        body     == Get(request, "body", EmptyDict)
        formdata == IF Get(body, "mode", "") = "formdata"
                    THEN Get(body, "formdata", << >>) ELSE << >>
    IN  [i \in DOMAIN query |->
            [name |-> Get(query[i], "key", [null |-> 0]), type |-> "query"]]
        \o [i \in DOMAIN formdata |->
              [name |-> Get(formdata[i], "key", [null |-> 0]), type |-> "formdata"]]

\* ToolParser._get_body_type
_get_body_type(request) ==
    Get(Get(request, "body", EmptyDict), "mode", "none")

\* ToolParser._parse_request
_parse_request(item, collection_name) ==
    LET request == Get(item, "request", EmptyDict)
    IN  [id |-> _generate_tool_id(item.name),
         name |-> Get(item, "name", "Unnamed Tool"),
         description |-> Get(item, "description", ""),
         collection |-> collection_name,
         method |-> Get(request, "method", "GET"),
         url |-> _extract_url(request),
         headers |-> _extract_headers(request),
         parameters |-> _extract_parameters(request),
         body_type |-> _get_body_type(request),
         domain |-> _infer_domain(item.name, collection_name)]

\* the request names of the collection
RequestNames ==
    { "Get User", "get user", "Get-User", "get_user", "GET USER", "Delete User",
      "List Users", "list-users", "Update User Profile", "Update-User Profile",
      "User Accounts" }

\* the items of the collection: one request per name, each with its own URL
CollectionItems ==
    { [name |-> n,
       request |-> [method |-> "GET",
                    url |-> [raw |-> "https://api.example.com/" \o n,
                             query |-> << [key |-> "verbose"] >>]]] : n \in RequestNames }

InitToolIds == Idle("parse_collection")

\* two requests of one collection are parsed and indexed, both are retrieved,
\* and the decision names the id of the second
parse_collection_call ==
    /\ pc = "parse_collection"
    /\ \E first \in CollectionItems, second \in CollectionItems :
         LET tools == << _parse_request(first, "Users API"),
                         _parse_request(second, "Users API") >>
             retrieved == << IndexMetadata(tools[1]), IndexMetadata(tools[2]) >>
         IN  /\ arg' = [first |-> first, second |-> second]
             /\ ret' = [tools |-> tools,
                        retrieved |-> retrieved,
                        selected |-> FindTool(retrieved,
                                              [action |-> "use_tool",
                                               tool_id |-> tools[2].id,
                                               parameters |-> [items |-> << >>]])]
    /\ pc' = "return"
    /\ UNCHANGED << state_vars, visited, executor_calls, llm_calls, session_vars >>

NextToolIds == parse_collection_call

SpecToolIds == InitToolIds /\ [][NextToolIds]_vars

\* C39: two requests with different names get different tool ids, so that
\* the lookup of the decision's tool_id in retrieved_tools finds the tool the
\* decision meant.
C39_ToolIdsUnique ==
    (pc = "return" /\ arg.first.name # arg.second.name)
    => /\ ret.tools[1].id # ret.tools[2].id
       /\ ret.selected = ret.retrieved[2]

\* ------------------------------------------------------------------------
\* Termination of a run (src/graph/lang_graph.py 417-516)
\* ------------------------------------------------------------------------

\* the step is not one in which a call to an external capability raised: a
\* failing retrieval always is one, a failing synthesize is one when the
\* synthesis capability was called; decide can fail on what the call returned
ExternalCallsReturn ==
    pc' = "RAISED"
    => \/ pc = "decide"
       \/ pc = "synthesize" /\ llm_calls' = llm_calls

NextReturning == Next /\ ExternalCallsReturn

\* the runs in which every external call returns, each node being executed
\* once the run has reached it
SpecReturning ==
    Init /\ [][NextReturning]_vars /\ WF_vars(NextReturning)

\* C34: when every call to an external capability and to the HTTP endpoint
\* returns, every run from an initialised state reaches End: Route runs once
\* and first, Retrieve, Decide, Synthesize, HandleError and the special
\* handlers run at most once each, CallTool at most twice, and exactly one
\* terminal stage runs, as the last node.
C34_EveryRunReachesEnd ==
    /\ <>(pc = "END")
    /\ [](visited # << >> => visited[1] = "route")
    /\ [](\A node \in {"route", "retrieve", "decide", "synthesize", "handle_error",
                       "rag", "system_search"} : CountOf(visited, node) <= 1)
    /\ [](CountOf(visited, "call_tool") <= 2)
    /\ [](pc = "END" => /\ Cardinality(TerminalRuns) = 1
                        /\ LastNode \in TerminalStages)

====
